---- MODULE Spec2Model ----
(***************************************************************************)
(* A model of puty, a YAML-driven test runner: the include resolver        *)
(* (loadYamlWithPath, flattenDocuments), the document-stream normalizer    *)
(* (processDocuments / parseYamlDocuments), the mock resolver              *)
(* (deepEqual, resolveMocks, processMockReferences, createMockFunction,    *)
(* validateMockCalls) and the case drivers (setupFunctionTests,            *)
(* setupClassTests, injectFunctions).                                      *)
(***************************************************************************)
EXTENDS Integers, Sequences, FiniteSets, TLC

VARIABLES
    \* ---- one running case (setupFunctionTests / setupClassTests) ----
    mockDefs,     \* the case's resolved mocks: name -> declared calls
    callIndex,    \* createMockFunction's callIndex, per mock
    history,      \* per mock, the argument lists it was invoked with
    mockError,    \* the mocks whose mock function raised a mismatch or count error
    casePc,       \* position in the test callback
    inflight,     \* the error travelling through the unit under test
    mode,         \* the suite's mode
    execsLeft,    \* executions of the case still to run
    unitOutcome,  \* how the last invocation of the unit under test ended
    validated,    \* validateMockCalls was called
    checked,      \* the mocks whose validate() was called
    cleared,      \* the finally block ran mockClear
    bodyResult,   \* the try block: not_entered, running, completed, threw
    caseState,    \* Ready, Running, Passed, Failed
    \* ---- one load of a YAML file (loadYamlWithPath, flattenDocuments) ----
    files,        \* the files on disk: name -> the documents of the file
    stack,        \* the active calls of loadYamlWithPath, outermost first
    loadPc,       \* idle, loading, unwinding, done, failed, flattened
    loadResult,   \* what the outermost loadYamlWithPath returned
    loadError,    \* the error in flight, or the one the caller received
    maxDepth,     \* the deepest nesting of loadYamlWithPath calls so far
    opened,       \* every file a call of loadYamlWithPath has read so far
    flat,         \* flattenDocuments(loadResult)
    \* ---- one document stream: normalization, then injectFunctions ----
    pipeline,     \* "file": processDocuments; "text": parseYamlDocuments
    stream,       \* the document stream the loop reads
    pos,          \* index of the next document of the loop
    config,       \* the config under construction
    currentSuite, \* the loop's currentSuite, Null while none is open
    normPc,       \* off, reading, threw, normalized, injected, inject_failed
    injected,     \* what injectFunctions returned
    injectError,  \* what injectFunctions threw
    ran,          \* the tests whose callback ran, <<suite, case>> in run order
    unitCalls,    \* the argument lists passed to the units under test
    \* ---- one call of resolveMocks, then of processMockReferences ----
    mockLevels,   \* the mocks of the case, of the suite and of the header
    tree,         \* the value given to processMockReferences
    resolvedMap,  \* what resolveMocks returned
    wrappers,     \* createMockFunctions(resolvedMap)
    treeResult,   \* what processMockReferences returned or threw
    mockPc,       \* off, start, resolved, processed, threw
    \* ---- one call of getNestedProperty or callNestedMethod ----
    graph,        \* the object the path is walked on
    dotPath,      \* the path, a string of characters
    callArgs,     \* the arguments of callNestedMethod
    resolverResult, \* what the call returned or threw
    resolverPc,   \* off, ready, or the name of the function that ended
    \* ---- one call of deepEqual ----
    eqLeft,       \* the first argument
    eqRight,      \* the second argument
    eqResult,     \* what deepEqual returned
    eqPc,         \* off, ready, done
    \* ---- one call of setupTestSuiteFromYaml ----
    sources,      \* the test files found, with how the resolution of each ends
    sourceIdx,    \* index of the file the loop is at
    attempted,    \* the files whose resolution was started
    registered,   \* the suites registered with the harness, <<file, suite>>
    setupPc,      \* off, running, done, rejected
    \* ---- the test callbacks of one suite, run in order ----
    runSuite,     \* the suite: its mode, its constructorArgs, its cases
    testIdx,      \* index of the case whose callback runs, or runs next
    execIdx,      \* the execution the callback is at
    assertIdx,    \* the assertion it is at, 0 before the method call
    runPc,        \* off, between, step, finish
    instance,     \* the instance of the running callback, 0 when none
    instances,    \* per instance constructed, the cases that wrote its fields
    argWriters,   \* the cases that wrote to the object in constructorArgs
    runLog,       \* what the callbacks did, in order
    verdicts      \* passed or failed, per case that ended

caseVars == <<mockDefs, callIndex, history, mockError, casePc, inflight, mode,
              execsLeft, unitOutcome, validated, checked, cleared, bodyResult,
              caseState>>

loadVars == <<files, stack, loadPc, loadResult, loadError, maxDepth, opened, flat>>

normVars == <<pipeline, stream, pos, config, currentSuite, normPc, injected,
              injectError, ran, unitCalls>>

mockVars == <<mockLevels, tree, resolvedMap, wrappers, treeResult, mockPc>>

pathVars == <<graph, dotPath, callArgs, resolverResult, resolverPc>>

eqVars == <<eqLeft, eqRight, eqResult, eqPc>>

\* the variables of the parts modelled one call at a time
setupVars == <<sources, sourceIdx, attempted, registered, setupPc>>

runVars == <<runSuite, testIdx, execIdx, assertIdx, runPc, instance, instances,
            argWriters, runLog, verdicts>>

restVars == <<eqVars, setupVars, runVars>>

vars == <<caseVars, loadVars, normVars, mockVars, pathVars, restVars>>

\* what a step of the case driver leaves alone
caseOnly == UNCHANGED <<loadVars, normVars, mockVars, pathVars, restVars>>

\* what a step of the loader leaves alone
loadOnly == UNCHANGED <<caseVars, normVars, mockVars, pathVars, restVars>>

\* what a step of the normalizer or of injectFunctions leaves alone
normOnly == UNCHANGED <<caseVars, loadVars, mockVars, pathVars, restVars>>

\* what a call of resolveMocks or processMockReferences leaves alone
mockOnly == UNCHANGED <<caseVars, loadVars, normVars, pathVars, restVars>>

\* what a call of getNestedProperty or callNestedMethod leaves alone
pathOnly == UNCHANGED <<caseVars, loadVars, normVars, mockVars, restVars>>

\* what a call of deepEqual leaves alone
eqOnly ==
    UNCHANGED <<caseVars, loadVars, normVars, mockVars, pathVars, setupVars, runVars>>

\* what a step of setupTestSuiteFromYaml leaves alone
setupOnly ==
    UNCHANGED <<caseVars, loadVars, normVars, mockVars, pathVars, eqVars, runVars>>

\* what a step of a test callback leaves alone
runOnly ==
    UNCHANGED <<caseVars, loadVars, normVars, mockVars, pathVars, eqVars, setupVars>>

----------------------------------------------------------------------------
(* JavaScript values, as the YAML loader and the unit under test make them *)

Undef == [t |-> "undef"]
Null == [t |-> "null"]
Num(n) == [t |-> "num", v |-> n]
Str(s) == [t |-> "str", v |-> s]
Arr(s) == [t |-> "arr", v |-> s]
Obj(f) == [t |-> "obj", v |-> f]

\* Object.keys of an array are its indices as strings
IndexKeys == <<"0", "1", "2", "3">>

keysOf(a) ==
    IF a.t = "arr" THEN {IndexKeys[i] : i \in 1..Len(a.v)} ELSE DOMAIN a.v

getKey(a, k) ==
    IF a.t = "arr"
    THEN a.v[CHOOSE i \in 1..Len(a.v) : IndexKeys[i] = k]
    ELSE a.v[k]

isObjectType(a) == a.t \in {"arr", "obj"}

\* a === b: primitives by value, objects by reference; an argument built by
\* the unit under test is never the object the YAML loader built
strictEqual(a, b) ==
    /\ a.t = b.t
    /\ a.t \in {"undef", "null", "num", "str"}
    /\ a = b

\* a == null
isNullish(a) == a.t \in {"undef", "null"}

RECURSIVE deepEqual(_, _)
deepEqual(a, b) ==
    IF strictEqual(a, b) THEN TRUE
    ELSE IF isNullish(a) \/ isNullish(b) THEN FALSE
    ELSE IF a.t = "arr" /\ b.t = "arr"
    THEN /\ Len(a.v) = Len(b.v)
         /\ \A i \in 1..Len(a.v) : deepEqual(a.v[i], b.v[i])
    ELSE IF isObjectType(a) /\ isObjectType(b)
    THEN /\ Cardinality(keysOf(a)) = Cardinality(keysOf(b))
         /\ \A k \in keysOf(a) :
               k \in keysOf(b) /\ deepEqual(getKey(a, k), getKey(b, k))
    ELSE FALSE

----------------------------------------------------------------------------
(* createMockFunction                                                      *)

\* a mock function that leaves callIndex alone when the call is declared
\* to throw
mockFnStuckOnThrow(calls, idx, args) ==
    IF idx >= Len(calls)
    THEN [callIndex |-> idx, outcome |-> "count_error"]
    ELSE IF ~deepEqual(Arr(args), calls[idx + 1].in)
    THEN [callIndex |-> idx, outcome |-> "mismatch_error"]
    ELSE IF calls[idx + 1].throws
    THEN [callIndex |-> idx, outcome |-> "declared_throw"]
    ELSE [callIndex |-> idx + 1, outcome |-> "return"]

\* the mock function: the new callIndex and how the invocation ends
mockFn(calls, idx, args) ==
    IF idx >= Len(calls)
    THEN [callIndex |-> idx, outcome |-> "count_error"]
    ELSE IF ~deepEqual(Arr(args), calls[idx + 1].in)
    THEN [callIndex |-> idx, outcome |-> "mismatch_error"]
    ELSE [callIndex |-> idx + 1,
          outcome |-> IF calls[idx + 1].throws THEN "declared_throw" ELSE "return"]

\* the wrapper's validate(): TRUE when it does not throw
validate(calls, idx) == idx = Len(calls)


\* validateMockCalls walks Object.values(mockFunctions) in key order and stops
\* at the first validate() that throws: the mocks it reached
MockOrder == <<"api", "logger">>

RECURSIVE validatedPrefix(_, _, _)
validatedPrefix(defs, idx, i) ==
    IF i > Len(MockOrder) THEN {}
    ELSE IF MockOrder[i] \notin DOMAIN defs THEN validatedPrefix(defs, idx, i + 1)
    ELSE IF ~validate(defs[MockOrder[i]], idx[MockOrder[i]]) THEN {MockOrder[i]}
    ELSE {MockOrder[i]} \cup validatedPrefix(defs, idx, i + 1)

\* TRUE when validateMockCalls returns without throwing
validateMockCalls(defs, idx) ==
    \A m \in DOMAIN defs : validate(defs[m], idx[m])

----------------------------------------------------------------------------
(* Bounds and inputs of one case                                           *)

MaxCalls == 2
MaxInvocations == 3
MaxExecutions == 1

V1 == Num(1)
V2 == Num(2)
L1 == Arr(<<V1>>)
O1 == Obj([k \in {"0"} |-> V1])


\* the argument lists the unit under test may pass to a mock
InvocationArgs == {<<V1>>, <<V1, V2>>, <<V2, V1>>, <<L1>>, <<O1>>}

\* the declared calls of a mock, as the YAML loader builds them: `in` is a
\* list, `throws` is set or not
DeclaredCalls ==
    {[in |-> Arr(<<V1>>), throws |-> FALSE],
     [in |-> Arr(<<V1>>), throws |-> TRUE],
     [in |-> Arr(<<V1, V2>>), throws |-> FALSE],
     [in |-> Arr(<<L1>>), throws |-> FALSE]}

SeqsUpTo(S, n) == UNION {[1..k -> S] : k \in 0..n}

\* the resolved mocks of a case: none, one mock, or two
CaseMockDefs ==
    {<<>>}
    \cup {[m \in {"api"} |-> c] : c \in SeqsUpTo(DeclaredCalls, MaxCalls)}
    \cup {[m \in {"api", "logger"} |-> IF m = "api" THEN c ELSE d] :
            c \in SeqsUpTo(DeclaredCalls, MaxCalls),
            d \in SeqsUpTo({[in |-> Arr(<<V1>>), throws |-> FALSE]}, 1)}

invocations == 
    LET RECURSIVE total(_)
        total(S) == IF S = {} THEN 0
                    ELSE LET m == CHOOSE x \in S : TRUE
                         IN Len(history[m]) + total(S \ {m})
    IN total(DOMAIN history)

----------------------------------------------------------------------------
(* The test callback of setupFunctionTests / setupClassTests               *)

InitCase ==
    /\ mockDefs \in CaseMockDefs
    /\ callIndex = [m \in DOMAIN mockDefs |-> 0]
    /\ history = [m \in DOMAIN mockDefs |-> <<>>]
    /\ mockError = {}
    /\ casePc = "ready"
    /\ inflight = "none"
    /\ mode = "none"
    /\ execsLeft = 0
    /\ unitOutcome = "none"
    /\ validated = FALSE
    /\ checked = {}
    /\ cleared = FALSE
    /\ bodyResult = "not_entered"
    /\ caseState = "Ready"

\* no file is being loaded
LoadIdle ==
    /\ files = <<>>
    /\ stack = <<>>
    /\ loadPc = "off"
    /\ loadResult = <<>>
    /\ loadError = <<>>
    /\ maxDepth = 0
    /\ opened = {}
    /\ flat = <<>>

\* no document stream is being normalized
NormIdle ==
    /\ pipeline = "none"
    /\ stream = <<>>
    /\ pos = 0
    /\ config = Null
    /\ currentSuite = Null
    /\ normPc = "off"
    /\ injected = Null
    /\ injectError = Null
    /\ ran = <<>>
    /\ unitCalls = {}

\* no call of resolveMocks or processMockReferences is under way
MockIdle ==
    /\ mockLevels = Null
    /\ tree = Null
    /\ resolvedMap = Null
    /\ wrappers = <<>>
    /\ treeResult = Null
    /\ mockPc = "off"

\* no call of getNestedProperty or callNestedMethod is under way
PathIdle ==
    /\ graph = Null
    /\ dotPath = <<>>
    /\ callArgs = <<>>
    /\ resolverResult = Null
    /\ resolverPc = "off"

\* no call of deepEqual is under way
EqIdle ==
    /\ eqLeft = Null
    /\ eqRight = Null
    /\ eqResult = FALSE
    /\ eqPc = "off"

\* setupTestSuiteFromYaml is not running
SetupIdle ==
    /\ sources = <<>>
    /\ sourceIdx = 0
    /\ attempted = {}
    /\ registered = {}
    /\ setupPc = "off"

\* no test callback of a suite is running
RunIdle ==
    /\ runSuite = Null
    /\ testIdx = 0
    /\ execIdx = 0
    /\ assertIdx = 0
    /\ runPc = "off"
    /\ instance = 0
    /\ instances = <<>>
    /\ argWriters = {}
    /\ runLog = <<>>
    /\ verdicts = <<>>

RestIdle == EqIdle /\ SetupIdle /\ RunIdle

\* the other parts of the program are idle
OthersIdle == MockIdle /\ PathIdle /\ RestIdle

InitCaseOnly == InitCase /\ LoadIdle /\ NormIdle /\ OthersIdle

\* the callback up to its try block: in class mode the instance is
\* constructed, and a constructor that throws leaves the callback before
\* try/finally is entered. (injectFunctions has thrown for a missing export,
\* so the "not found" guards of the callbacks never fire.)
StartCase ==
    /\ caseOnly
    /\ casePc = "ready"
    /\ \E md \in {"function", "class"}, ctorThrows \in BOOLEAN,
          n \in 0..MaxExecutions :
        /\ md = "function" => (n = 1 /\ ~ctorThrows)
        /\ mode' = md
        /\ IF ctorThrows
           THEN /\ casePc' = "done"
                /\ caseState' = "Failed"
                /\ execsLeft' = 0
                /\ UNCHANGED bodyResult
           ELSE /\ casePc' = "body"
                /\ caseState' = "Running"
                /\ execsLeft' = n
                /\ bodyResult' = "running"
    /\ UNCHANGED <<mockDefs, callIndex, history, mockError, inflight,
                   unitOutcome, validated, checked, cleared>>

\* the body calls the unit under test (the function, or the next execution's method)
CallUnit ==
    /\ caseOnly
    /\ casePc = "body"
    /\ execsLeft > 0
    /\ casePc' = "unit"
    /\ unitOutcome' = "none"
    /\ UNCHANGED <<mockDefs, callIndex, history, mockError, inflight, mode,
                   execsLeft, validated, checked, cleared, caseState, bodyResult>>

\* the unit under test invokes one of the case's mock functions
InvokeMock ==
    /\ caseOnly
    /\ casePc = "unit"
    /\ invocations < MaxInvocations
    /\ \E m \in DOMAIN mockDefs, args \in InvocationArgs :
        LET r == mockFn(mockDefs[m], callIndex[m], args) IN
        /\ callIndex' = [callIndex EXCEPT ![m] = r.callIndex]
        /\ history' = [history EXCEPT ![m] = Append(@, args)]
        /\ mockError' = IF r.outcome \in {"count_error", "mismatch_error"}
                        THEN mockError \cup {m} ELSE mockError
        /\ IF r.outcome = "return"
           THEN casePc' = "unit" /\ inflight' = "none"
           ELSE casePc' = "raised" /\ inflight' = r.outcome
    /\ UNCHANGED <<mockDefs, mode, execsLeft, unitOutcome, validated, checked,
                   cleared, caseState, bodyResult>>

\* the unit under test catches what the mock raised and goes on
UnitCatches ==
    /\ caseOnly
    /\ casePc = "raised"
    /\ casePc' = "unit"
    /\ inflight' = "none"
    /\ UNCHANGED <<mockDefs, callIndex, history, mockError, mode, execsLeft,
                   unitOutcome, validated, checked, cleared, caseState, bodyResult>>

\* the unit under test lets what the mock raised escape
UnitPropagates ==
    /\ caseOnly
    /\ casePc = "raised"
    /\ casePc' = "check"
    /\ unitOutcome' = IF inflight = "declared_throw" THEN "threw_declared"
                      ELSE "threw_mock_error"
    /\ inflight' = "none"
    /\ UNCHANGED <<mockDefs, callIndex, history, mockError, mode, execsLeft,
                   validated, checked, cleared, caseState, bodyResult>>

\* the unit under test returns (the expected value or another) or throws
UnitEnds ==
    /\ caseOnly
    /\ casePc = "unit"
    /\ casePc' = "check"
    /\ unitOutcome' \in {"return_expected", "return_other", "threw_own"}
    /\ UNCHANGED <<mockDefs, callIndex, history, mockError, inflight, mode,
                   execsLeft, validated, checked, cleared, caseState, bodyResult>>

\* the finally block of the callback
finallyClear == cleared' = TRUE

\* a teardown that validates in the finally block as well
tryBlockThrowsValidating ==
    /\ bodyResult' = "threw"
    /\ finallyClear
    /\ validated' = (DOMAIN mockDefs # {})
    /\ checked' = validatedPrefix(mockDefs, callIndex, 1)

\* an exception leaves the try block: only the finally block runs
tryBlockThrows ==
    /\ bodyResult' = "threw"
    /\ finallyClear
    /\ UNCHANGED <<validated, checked>>

\* the try block reaches its last statement: validateMockCalls when the case
\* has mocks, then the finally block
tryBlockCompletes ==
    /\ bodyResult' = "completed"
    /\ IF DOMAIN mockDefs # {}
       THEN /\ validated' = TRUE
            /\ checked' = validatedPrefix(mockDefs, callIndex, 1)
            /\ caseState' = IF validateMockCalls(mockDefs, callIndex)
                            THEN "Passed" ELSE "Failed"
       ELSE /\ caseState' = "Passed"
            /\ UNCHANGED <<validated, checked>>
    /\ finallyClear

\* expect(...) on the unit's outcome, then the execution's asserts; a failed
\* expectation throws out of the try block, through finally
CheckOutcome ==
    /\ caseOnly
    /\ casePc = "check"
    /\ \E throws \in BOOLEAN, messageMatches \in BOOLEAN, assertsPass \in BOOLEAN :
        LET threw == unitOutcome \in {"threw_own", "threw_declared", "threw_mock_error"}
            pass == /\ IF throws THEN threw /\ messageMatches
                       ELSE unitOutcome = "return_expected"
                    /\ (mode = "class" => assertsPass)
        IN
        /\ mode = "function" => assertsPass
        /\ ~threw => messageMatches
        /\ IF pass
           THEN /\ casePc' = "body"
                /\ execsLeft' = execsLeft - 1
                /\ UNCHANGED <<cleared, caseState, bodyResult, validated, checked>>
           ELSE /\ casePc' = "done"
                /\ tryBlockThrows
                /\ caseState' = "Failed"
                /\ UNCHANGED execsLeft
    /\ UNCHANGED <<mockDefs, callIndex, history, mockError, inflight, mode,
                   unitOutcome>>

\* the unit's last outcome was accepted: the rest of the try block, then finally
FinishBody ==
    /\ caseOnly
    /\ casePc = "body"
    /\ execsLeft = 0
    /\ casePc' = "done"
    /\ tryBlockCompletes
    /\ UNCHANGED <<mockDefs, callIndex, history, mockError, inflight, mode,
                   execsLeft, unitOutcome>>

NextCase ==
    \/ StartCase
    \/ CallUnit
    \/ InvokeMock
    \/ UnitCatches
    \/ UnitPropagates
    \/ UnitEnds
    \/ CheckOutcome
    \/ FinishBody

SpecCase == InitCaseOnly /\ [][NextCase]_vars

----------------------------------------------------------------------------
(* Claims about one running case                                           *)

\* a mock whose cursor is not at the end of its declared calls
unfinishedMocks == {m \in DOMAIN mockDefs : callIndex[m] # Len(mockDefs[m])}

sameCalls(h, calls) ==
    /\ Len(h) = Len(calls)
    /\ \A i \in 1..Len(h) : Arr(h[i]) = calls[i].in

\* C3: for every mock and every sequence of invocations made so far, no
\* invocation raised a mock error and validate() would succeed if and only if
\* the sequence equals the declared calls exactly.
C3_CleanIffExactSequence ==
    \A m \in DOMAIN mockDefs :
        (m \notin mockError /\ validate(mockDefs[m], callIndex[m]))
            <=> sameCalls(history[m], mockDefs[m])

\* one step of the cursor of mock m: it moves by one, on an invocation of m
\* whose arguments deepEqual accepts for the call at the cursor, and on
\* every such invocation
cursorStep(m) ==
    /\ callIndex'[m] \in {callIndex[m], callIndex[m] + 1}
    /\ history'[m] = history[m] => callIndex'[m] = callIndex[m]
    /\ history'[m] # history[m] =>
          /\ Len(history'[m]) = Len(history[m]) + 1
          /\ callIndex'[m] = callIndex[m] + 1
                <=> /\ callIndex[m] < Len(mockDefs[m])
                    /\ deepEqual(Arr(history'[m][Len(history'[m])]),
                                 mockDefs[m][callIndex[m] + 1].in)
    /\ (validated' # validated \/ checked' # checked \/ cleared' # cleared)
          => callIndex'[m] = callIndex[m]

C4_MockErrorFailsCase ==
    (casePc = "done" /\ mockError # {}) => caseState = "Failed"

----------------------------------------------------------------------------
(* The include resolver: loadYamlWithPath                                  *)

\* the bound on the documents of all files together
MaxTotalDocs == 4
\* the calls the engine's stack can hold
MaxStack == 6

Root == "main"
FileNames == {"main", "a", "b"}
\* a path no file has
Ghost == "ghost"

\* a document of a file: plain, `!include t` as the whole document, or a
\* mapping with a field whose value is `!include t`
PlainDoc == [k |-> "doc"]
IncDoc(t) == [k |-> "inc", target |-> t]
FieldDoc(t) == [k |-> "field", target |-> t]

DocsOf(f) ==
    CASE f = "main" -> {PlainDoc, IncDoc("a"), IncDoc("b"), IncDoc("main"),
                        IncDoc(Ghost), FieldDoc("a")}
      [] f = "a" -> {PlainDoc, IncDoc("b"), IncDoc("a"), IncDoc("main"),
                     IncDoc(Ghost), FieldDoc("b")}
      [] f = "b" -> {PlainDoc, IncDoc("a"), IncDoc(Ghost)}

\* what loading yields: a plain document, a mapping whose field holds the
\* included content, or a list of documents
Leaf(f, i) == [k |-> "doc", file |-> f, idx |-> i]
MapWith(f, i, v) == [k |-> "map", file |-> f, idx |-> i, data |-> v]
List(s) == [k |-> "list", items |-> s]

\* docs.length === 1 ? docs[0] : docs
loadReturn(docs) == IF Len(docs) = 1 THEN docs[1] ELSE List(docs)

\* a check against every file read so far, on or off the active chain
alreadyVisitedAnywhere(visited, path) == path \in opened

\* visitedFiles.has(absolutePath), on the set the call was given
alreadyVisited(visited, path) == path \in visited

\* a catch block that reports the file and drops the inner message
wrapErrorWithoutMessage(path, err) ==
    [kind |-> "load", path |-> path, from |-> "", wrappers |-> <<>>]

\* new Error(`Error loading YAML file ${absolutePath}: ${error.message}`):
\* the message keeps the inner message behind one more prefix
wrapError(path, err) == [err EXCEPT !.wrappers = <<path>> \o @]

NoError == [kind |-> "none"]

Max(a, b) == IF a >= b THEN a ELSE b

InitLoad ==
    /\ \E n1 \in 0..MaxTotalDocs :
       \E n2 \in 0..(MaxTotalDocs - n1) :
       \E n3 \in 0..(MaxTotalDocs - n1 - n2) :
       \E d1 \in [1..n1 -> DocsOf("main")], d2 \in [1..n2 -> DocsOf("a")],
          d3 \in [1..n3 -> DocsOf("b")] :
           files = [f \in FileNames |->
                      CASE f = "main" -> d1 [] f = "a" -> d2 [] f = "b" -> d3]
    /\ stack = <<>>
    /\ loadPc = "idle"
    /\ loadResult = <<>>
    /\ loadError = NoError
    /\ maxDepth = 0
    /\ opened = {}
    /\ flat = <<>>

\* no case is running
CaseIdle ==
    /\ mockDefs = <<>>
    /\ callIndex = <<>>
    /\ history = <<>>
    /\ mockError = {}
    /\ casePc = "off"
    /\ inflight = "none"
    /\ mode = "none"
    /\ execsLeft = 0
    /\ unitOutcome = "none"
    /\ validated = FALSE
    /\ checked = {}
    /\ cleared = FALSE
    /\ bodyResult = "not_entered"
    /\ caseState = "Ready"

\* a call that never records its own path
newFrameUnrecorded(path, visited) ==
    [path |-> path, visited |-> visited, pos |-> 1, docs |-> <<>>]

\* a call that passed the circular check: visitedFiles.add(absolutePath), and
\* nothing read yet
newFrame(path, visited) ==
    [path |-> path, visited |-> visited \cup {path}, pos |-> 1, docs |-> <<>>]

top == stack[Len(stack)]
topDoc == files[top.path][top.pos]

\* the caller loads the root file: loadYamlWithPath(filePath) with a new Set
LoadRoot ==
    /\ loadOnly
    /\ loadPc = "idle"
    /\ loadPc' = "loading"
    /\ stack' = <<newFrame(Root, {})>>
    /\ maxDepth' = 1
    /\ opened' = {Root}
    /\ UNCHANGED <<files, loadResult, loadError, flat>>

\* yaml.loadAll reaches a document without an include
LoadPlainDocument ==
    /\ loadOnly
    /\ loadPc = "loading"
    /\ top.pos <= Len(files[top.path])
    /\ topDoc.k = "doc"
    /\ stack' = [stack EXCEPT ![Len(stack)] =
                    [@ EXCEPT !.docs = Append(@, Leaf(top.path, top.pos)),
                              !.pos = @ + 1]]
    /\ UNCHANGED <<files, loadPc, loadResult, loadError, maxDepth, opened, flat>>

\* construct() of an !include whose file does not exist
IncludeNotFound ==
    /\ loadOnly
    /\ loadPc = "loading"
    /\ top.pos <= Len(files[top.path])
    /\ topDoc.k \in {"inc", "field"}
    /\ topDoc.target \notin DOMAIN files
    /\ loadPc' = "unwinding"
    /\ loadError' = [kind |-> "notfound", path |-> topDoc.target,
                     from |-> top.path, wrappers |-> <<>>]
    /\ UNCHANGED <<files, stack, loadResult, maxDepth, opened, flat>>

\* construct() calls loadYamlWithPath(resolved, new Set(visitedFiles)), which
\* finds the path in the set it was given and throws before its try block
IncludeCircular ==
    /\ loadOnly
    /\ loadPc = "loading"
    /\ top.pos <= Len(files[top.path])
    /\ topDoc.k \in {"inc", "field"}
    /\ topDoc.target \in DOMAIN files
    /\ alreadyVisited(top.visited, topDoc.target)
    /\ loadPc' = "unwinding"
    /\ loadError' = [kind |-> "circular", path |-> topDoc.target,
                     from |-> "", wrappers |-> <<>>]
    /\ maxDepth' = Max(maxDepth, Len(stack) + 1)
    /\ UNCHANGED <<files, stack, loadResult, opened, flat>>

\* construct() calls loadYamlWithPath(resolved, new Set(visitedFiles)), which
\* adds its path to the copy and starts reading the file
IncludeEnters ==
    /\ loadOnly
    /\ loadPc = "loading"
    /\ top.pos <= Len(files[top.path])
    /\ topDoc.k \in {"inc", "field"}
    /\ topDoc.target \in DOMAIN files
    /\ ~alreadyVisited(top.visited, topDoc.target)
    /\ Len(stack) < MaxStack
    /\ stack' = Append(stack, newFrame(topDoc.target, top.visited))
    /\ maxDepth' = Max(maxDepth, Len(stack) + 1)
    /\ opened' = opened \cup {topDoc.target}
    /\ UNCHANGED <<files, loadPc, loadResult, loadError, flat>>

\* a call read its last document and returns; the including document of the
\* caller becomes the returned content (or holds it in its field)
LoadReturns ==
    /\ loadOnly
    /\ loadPc = "loading"
    /\ top.pos > Len(files[top.path])
    /\ LET v == loadReturn(top.docs) IN
       IF Len(stack) = 1
       THEN /\ loadPc' = "done"
            /\ loadResult' = v
            /\ stack' = <<>>
       ELSE LET caller == stack[Len(stack) - 1]
                doc == files[caller.path][caller.pos]
                got == IF doc.k = "inc" THEN v
                       ELSE MapWith(caller.path, caller.pos, v)
            IN /\ stack' = [SubSeq(stack, 1, Len(stack) - 1)
                              EXCEPT ![Len(stack) - 1] =
                                [@ EXCEPT !.docs = Append(@, got), !.pos = @ + 1]]
               /\ UNCHANGED <<loadPc, loadResult>>
    /\ UNCHANGED <<files, loadError, maxDepth, opened, flat>>

\* the catch block of the innermost active call wraps the error and rethrows
\* it; the finally block drops the call's path from its set
LoadUnwinds ==
    /\ loadOnly
    /\ loadPc = "unwinding"
    /\ stack # <<>>
    /\ loadError' = wrapError(top.path, loadError)
    /\ stack' = SubSeq(stack, 1, Len(stack) - 1)
    /\ loadPc' = IF Len(stack) = 1 THEN "failed" ELSE "unwinding"
    /\ UNCHANGED <<files, loadResult, maxDepth, opened, flat>>

----------------------------------------------------------------------------
(* flattenDocuments                                                        *)

RECURSIVE flattenItems(_)
RECURSIVE flattenDocuments(_)

\* a flatten that spreads the lists of the top level only
flattenOneLevel(data) ==
    IF data.k # "list" THEN <<data>>
    ELSE LET RECURSIVE spread(_)
             spread(items) ==
                 IF items = <<>> THEN <<>>
                 ELSE (IF Head(items).k = "list" THEN Head(items).items
                       ELSE <<Head(items)>>) \o spread(Tail(items))
         IN spread(data.items)

flattenDocuments(data) ==
    IF data.k # "list" THEN <<data>> ELSE flattenItems(data.items)

\* the loop of flattenDocuments over the items of a list
flattenItems(items) ==
    IF items = <<>> THEN <<>>
    ELSE (IF Head(items).k = "list" THEN flattenDocuments(Head(items))
          ELSE <<Head(items)>>) \o flattenItems(Tail(items))

\* parseWithIncludes flattens what the load returned
FlattenLoaded ==
    /\ loadOnly
    /\ loadPc = "done"
    /\ loadPc' = "flattened"
    /\ flat' = flattenDocuments(loadResult)
    /\ UNCHANGED <<files, stack, loadResult, loadError, maxDepth, opened>>

NextLoad ==
    \/ LoadRoot
    \/ LoadPlainDocument
    \/ IncludeNotFound
    \/ IncludeCircular
    \/ IncludeEnters
    \/ LoadReturns
    \/ LoadUnwinds
    \/ FlattenLoaded

InitLoadOnly == InitLoad /\ CaseIdle /\ NormIdle /\ OthersIdle

\* a call of loadYamlWithPath runs until it returns or throws
SpecLoad == InitLoadOnly /\ [][NextLoad]_vars /\ WF_vars(NextLoad)

----------------------------------------------------------------------------
(* Claims about the include resolver                                       *)

\* the include directives of a file
includesOf(f) ==
    {files[f][i].target : i \in {j \in 1..Len(files[f]) : files[f][j].k # "doc"}}

\* the paths reached from a set of paths by at most n includes
RECURSIVE reachWithin(_, _)
reachWithin(S, n) ==
    IF n = 0 THEN S
    ELSE reachWithin(S \cup UNION {includesOf(f) : f \in S \cap DOMAIN files}, n - 1)

\* the paths a load of f may come to, f included
reach(f) == reachWithin({f}, Cardinality(DOMAIN files) + 1)

\* the paths reached from f by one include or more
reachPlus(f) == UNION {reach(t) : t \in includesOf(f)}

\* f includes itself, directly or through its descendants
onCycle(f) == f \in DOMAIN files /\ f \in reachPlus(f)

cycleReachable == \E f \in reach(Root) \cap DOMAIN files : onCycle(f)
missingReachable == \E p \in reach(Root) : p \notin DOMAIN files

loadEnded == loadPc \in {"done", "failed", "flattened"}
loadSucceeded == loadPc \in {"done", "flattened"}

RECURSIVE contentOf(_)
contentOf(f) ==
    loadReturn([i \in 1..Len(files[f]) |->
        CASE files[f][i].k = "doc" -> Leaf(f, i)
          [] files[f][i].k = "inc" -> contentOf(files[f][i].target)
          [] files[f][i].k = "field" -> MapWith(f, i, contentOf(files[f][i].target))])

\* the places that include a file, among the files the load comes to
includeSites(t) ==
    {<<f, i>> \in (reach(Root) \cap DOMAIN files) \X (1..MaxTotalDocs) :
        i <= Len(files[f]) /\ files[f][i].k # "doc" /\ files[f][i].target = t}

\* C6: a circular error is raised only for a file that includes itself or is
\* included by one of its descendants, and that file is then among the calls
\* active when it was raised; a load of files without such a cycle (and
\* without missing targets) succeeds however often a file is included, and
\* every place that includes a file receives that file's content.
C6_SharedIncludeSucceeds ==
    /\ loadError.kind = "circular" => onCycle(loadError.path)
    /\ (loadPc = "failed" /\ loadError.kind = "circular") =>
          \E i \in 1..Len(loadError.wrappers) :
              loadError.wrappers[i] = loadError.path
    /\ (loadEnded /\ ~cycleReachable /\ ~missingReachable) =>
          (loadSucceeded /\ loadResult = contentOf(Root))

\* C6 witness: a load succeeded in which a file with a document is included
\* from two different files
C6_Witness ==
    /\ loadSucceeded
    /\ \E t \in DOMAIN files :
          /\ files[t] # <<>>
          /\ \E s1, s2 \in includeSites(t) : s1[1] # s2[1]

RECURSIVE documentsOf(_)
documentsOf(f) ==
    LET RECURSIVE from(_)
        from(i) ==
            IF i > Len(files[f]) THEN <<>>
            ELSE (CASE files[f][i].k = "doc" -> <<Leaf(f, i)>>
                    [] files[f][i].k = "inc" -> documentsOf(files[f][i].target)
                    [] files[f][i].k = "field" ->
                         <<MapWith(f, i, contentOf(files[f][i].target))>>)
                 \o from(i + 1)
    IN from(1)

\* the nesting of lists in a loaded value
RECURSIVE listDepth(_)
listDepth(v) ==
    IF v.k # "list" THEN 0
    ELSE LET RECURSIVE deepest(_)
             deepest(items) ==
                 IF items = <<>> THEN 0
                 ELSE Max(listDepth(Head(items)), deepest(Tail(items)))
         IN 1 + deepest(v.items)

\* C8: flattenDocuments of a loaded result holds no list, and holds the
\* documents of the nested result in reading order, each once.
C8_FlattenedIsFlat ==
    loadPc = "flattened" =>
        /\ \A i \in 1..Len(flat) : flat[i].k # "list"
        /\ flat = documentsOf(Root)

\* C8 witness: a result with lists nested three deep was flattened
C8_Witness ==
    /\ loadPc = "flattened"
    /\ listDepth(loadResult) >= 3
    /\ Len(flat) >= 2

----------------------------------------------------------------------------
(* The document-stream normalizer: processDocuments (the file pipeline,    *)
(* behind parseWithIncludes) and parseYamlDocuments (YAML text)            *)

MaxDocs == 4

\* a document, a suite, a case and the config are records holding exactly the
\* keys the object has; reading a key the object lacks gives undefined
prop(o, k) == IF k \in DOMAIN o THEN o[k] ELSE Undef

\* o[k] = v
setProp(o, k, v) == (k :> v) @@ o

\* JavaScript truthiness of the values a document holds
truthy(v) ==
    CASE v.t \in {"undef", "null"} -> FALSE
      [] v.t = "str" -> v.v # <<>>
      [] v.t = "num" -> v.v # 0
      [] OTHER -> TRUE

\* a || b
orElse(a, b) == IF truthy(a) THEN a ELSE b

\* the initial config of processDocuments
processDocumentsConfig == [file |-> Null, group |-> Null, suites |-> <<>>]

\* the initial config of parseYamlDocuments
parseYamlDocumentsConfig ==
    [file |-> Null, group |-> Null, mocks |-> Obj(<<>>), suites |-> <<>>]

initialConfig(p) ==
    IF p = "file" THEN processDocumentsConfig ELSE parseYamlDocumentsConfig

\* if (doc.file): the header fields
headerFields(cfg, doc) ==
    LET c == setProp(setProp(cfg, "file", doc.file), "group",
                     orElse(prop(doc, "group"), prop(doc, "name")))
    IN IF truthy(prop(doc, "suites"))
       THEN setProp(c, "suiteNames", doc.suites)
       ELSE c

\* processDocuments keeps no mocks of the header document
processDocumentsHeader(cfg, doc) == headerFields(cfg, doc)

\* parseYamlDocuments: config.mocks = doc.mocks || {}, set before suiteNames
parseYamlDocumentsHeader(cfg, doc) ==
    headerFields(setProp(cfg, "mocks", orElse(prop(doc, "mocks"), Obj(<<>>))), doc)

\* only a mode that is exactly "class" is kept, with its constructorArgs
withMode(suite, doc) ==
    IF prop(doc, "mode") = Str(<<"c", "l", "a", "s", "s">>)
    THEN setProp(setProp(suite, "mode", doc.mode), "constructorArgs",
                 orElse(prop(doc, "constructorArgs"), Arr(<<>>)))
    ELSE suite

processDocumentsSuite(doc) ==
    withMode([name |-> doc.suite,
              exportName |-> orElse(prop(doc, "exportName"), doc.suite),
              cases |-> <<>>], doc)

parseYamlDocumentsSuite(doc) ==
    withMode([name |-> doc.suite,
              exportName |-> orElse(prop(doc, "exportName"), doc.suite),
              mocks |-> orElse(prop(doc, "mocks"), Obj(<<>>)),
              cases |-> <<>>], doc)

\* the shape of a case taken from the fields of the case document itself
withShapeOfDocument(testCase, suite, doc) ==
    IF truthy(prop(doc, "executions"))
    THEN setProp(testCase, "executions", doc.executions)
    ELSE setProp(setProp(testCase, "in", orElse(prop(doc, "in"), Arr(<<>>))),
                 "out", prop(doc, "out"))

\* the shape of a case follows the mode of the open suite
withShape(testCase, suite, doc) ==
    IF prop(suite, "mode") = Str(<<"c", "l", "a", "s", "s">>)
    THEN setProp(testCase, "executions", orElse(prop(doc, "executions"), Arr(<<>>)))
    ELSE LET c == setProp(setProp(testCase, "in", orElse(prop(doc, "in"), Arr(<<>>))),
                          "out", prop(doc, "out"))
         IN IF truthy(prop(doc, "throws"))
            THEN setProp(c, "throws", doc.throws)
            ELSE c

processDocumentsCase(suite, doc) == withShape([name |-> doc.case], suite, doc)

parseYamlDocumentsCase(suite, doc) ==
    withShape([name |-> doc.case,
               mocks |-> orElse(prop(doc, "mocks"), Obj(<<>>)),
               resolvedMocks |-> Null], suite, doc)

\* else if (doc.case): the guard of the source without its currentSuite test
caseBranchUnguarded(doc, cur) == truthy(prop(doc, "case"))

\* else if (doc.case && currentSuite)
caseBranch(doc, cur) == truthy(prop(doc, "case")) /\ cur # Null

\* the branch of the loop body a document takes; a document that is null
\* (an empty or comment-only YAML document) has no property to read:
\* doc.file is a TypeError
branch(doc, cur) ==
    IF doc = Null THEN "type_error"
    ELSE IF truthy(prop(doc, "file")) THEN "header"
    ELSE IF truthy(prop(doc, "suite")) THEN "suite"
    ELSE IF caseBranch(doc, cur) THEN "case"
    ELSE "none"

\* the open suite put in front of the suites instead of behind them
pushOpenSuiteFirst(cfg, cur) ==
    IF cur # Null THEN [cfg EXCEPT !.suites = <<cur>> \o @] ELSE cfg

\* config.suites.push(currentSuite), when a suite is open
pushOpenSuite(cfg, cur) ==
    IF cur # Null THEN [cfg EXCEPT !.suites = Append(@, cur)] ELSE cfg

\* the end of the loop without the flush of the open suite
endOfStreamWithoutFlush(cfg, cur) == cfg

\* if (currentSuite) config.suites.push(currentSuite), after the loop
endOfStream(cfg, cur) == pushOpenSuite(cfg, cur)

\* one iteration of the loop: the config, the open suite, and whether the
\* iteration threw (reading currentSuite.mode of null is a TypeError)
loopBody(p, st, doc) ==
    LET b == branch(doc, st.currentSuite) IN
    CASE b = "header" ->
           [st EXCEPT !.config = IF p = "file"
                                 THEN processDocumentsHeader(@, doc)
                                 ELSE parseYamlDocumentsHeader(@, doc)]
      [] b = "suite" ->
           [st EXCEPT !.config = pushOpenSuite(@, st.currentSuite),
                      !.currentSuite = IF p = "file"
                                       THEN processDocumentsSuite(doc)
                                       ELSE parseYamlDocumentsSuite(doc)]
      [] b = "case" ->
           IF st.currentSuite = Null
           THEN [st EXCEPT !.threw = TRUE]
           ELSE [st EXCEPT !.currentSuite.cases =
                     Append(@, IF p = "file"
                               THEN processDocumentsCase(st.currentSuite, doc)
                               ELSE parseYamlDocumentsCase(st.currentSuite, doc))]
      [] b = "type_error" -> [st EXCEPT !.threw = TRUE]
      [] OTHER -> st

\* the whole of processDocuments (p = "file") or parseYamlDocuments
RECURSIVE loopFrom(_, _, _, _)
loopFrom(p, st, ds, i) ==
    IF st.threw \/ i > Len(ds) THEN st
    ELSE loopFrom(p, loopBody(p, st, ds[i]), ds, i + 1)

normalize(p, ds) ==
    LET st == loopFrom(p, [config |-> initialConfig(p), currentSuite |-> Null,
                           threw |-> FALSE], ds, 1)
    IN [threw |-> st.threw,
        config |-> IF st.threw THEN Null ELSE endOfStream(st.config, st.currentSuite)]

----------------------------------------------------------------------------
(* resolveMocks, processMockReferences, createMockFunctions, injectFunctions *)

\* the sentinel prefix '$mock:' of a mock reference, six characters
MockPrefix == <<"$", "m", "o", "c", "k", ":">>

\* value.startsWith('$mock:')
startsWithMockPrefix(chars) ==
    /\ Len(chars) >= Len(MockPrefix)
    /\ SubSeq(chars, 1, Len(MockPrefix)) = MockPrefix

\* value.substring(6)
substring6(chars) == SubSeq(chars, 7, Len(chars))

\* a default parameter: an undefined argument becomes {}
defaultEmpty(m) == IF m.t = "undef" THEN Obj(<<>>) ELSE m

\* Object.assign(target, source): every key of the source is written to
\* the target, replacing the whole value the target had for it
objectAssign(target, source) ==
    [n \in DOMAIN target \cup DOMAIN source |->
        IF n \in DOMAIN source THEN source[n] ELSE target[n]]

\* the definitions of every level with the call lists of one name joined
resolveMocksJoiningCalls(caseMocks, suiteMocks, globalMocks) ==
    LET c == defaultEmpty(caseMocks).v
        s == defaultEmpty(suiteMocks).v
        g == defaultEmpty(globalMocks).v
        callsOf(m, n) == IF n \in DOMAIN m THEN m[n].calls ELSE <<>>
    IN Obj([n \in DOMAIN g \cup DOMAIN s \cup DOMAIN c |->
              [calls |-> callsOf(g, n) \o callsOf(s, n) \o callsOf(c, n)]])

\* Object.assign(resolved, globalMocks, suiteMocks, caseMocks)
resolveMocks(caseMocks, suiteMocks, globalMocks) ==
    Obj(objectAssign(objectAssign(objectAssign(<<>>, defaultEmpty(globalMocks).v),
                                  defaultEmpty(suiteMocks).v),
                     defaultEmpty(caseMocks).v))

\* one wrapper per resolved definition, its cursor at 0
createMockFunctions(resolved) ==
    [n \in DOMAIN resolved.v |->
        [mockFunction |-> [t |-> "fn", mock |-> n],
         calls |-> resolved.v[n].calls,
         callIndex |-> 0]]

\* throw new Error(`Mock '${mockName}' is referenced but not defined`)
Throw(name) == [t |-> "throw", kind |-> "undefined_mock", mock |-> name]

\* the first thrown error of a sequence of results, in order
firstThrow(results) ==
    LET bad == {i \in 1..Len(results) : results[i].t = "throw"}
    IN IF bad = {} THEN Undef
       ELSE results[CHOOSE i \in bad : \A j \in bad : i <= j]

\* a list of processed items in reverse order
processedListReversed(items) ==
    IF firstThrow(items).t = "throw" THEN firstThrow(items)
    ELSE Arr([i \in 1..Len(items) |-> items[Len(items) + 1 - i]])

\* a list of processed items: the list, or the first error
processedList(items) ==
    IF firstThrow(items).t = "throw" THEN firstThrow(items) ELSE Arr(items)

\* an object of processed values: the object, or an error
processedObject(processed) ==
    IF \E k \in DOMAIN processed : processed[k].t = "throw"
    THEN processed[CHOOSE k \in DOMAIN processed : processed[k].t = "throw"]
    ELSE Obj(processed)

\* mockFunctions is a plain object: reading a key it does not own gives
\* the member of that name inherited from Object.prototype, if there is
\* one (constructor, toString, ...); one such name stands for them
ObjectPrototypeNames == {<<"c", "o", "n", "s", "t", "r", "u", "c", "t", "o", "r">>}

\* !mockFunctions[mockName]
lacksMember(mockFunctions, mockName) ==
    mockName \notin DOMAIN mockFunctions /\ mockName \notin ObjectPrototypeNames

\* mockFunctions[mockName].mockFunction: an inherited member has no
\* property mockFunction
mockFunctionOf(mockFunctions, mockName) ==
    IF mockName \in DOMAIN mockFunctions
    THEN mockFunctions[mockName].mockFunction
    ELSE Undef

\* the processed value, or the error of the first undefined reference
RECURSIVE processMockReferences(_, _)
processMockReferences(value, mockFunctions) ==
    IF value.t = "str" /\ startsWithMockPrefix(value.v)
    THEN IF lacksMember(mockFunctions, substring6(value.v))
         THEN Throw(substring6(value.v))
         ELSE mockFunctionOf(mockFunctions, substring6(value.v))
    ELSE IF value.t = "arr"
    THEN processedList([i \in 1..Len(value.v) |->
                           processMockReferences(value.v[i], mockFunctions)])
    ELSE IF value.t = "obj"
    THEN processedObject([k \in DOMAIN value.v |->
                             processMockReferences(value.v[k], mockFunctions)])
    ELSE value

\* if (o.in) o.in = processMockReferences(o.in, mockFunctions), then the same
\* for o.out: the object after both, and the first error thrown (undefined
\* when none was)
processInOut(o, mockFunctions) ==
    LET keys == <<"in", "out">>
        results == [i \in 1..2 |->
                      IF truthy(prop(o, keys[i]))
                      THEN processMockReferences(o[keys[i]], mockFunctions)
                      ELSE Undef]
    IN [error |-> firstThrow(results),
        object |-> [k \in DOMAIN o |->
                      IF k = "in" /\ truthy(o[k]) THEN results[1]
                      ELSE IF k = "out" /\ truthy(o[k]) THEN results[2]
                      ELSE o[k]]]

\* the executions of a case, a list of objects
executionsOf(testCase) ==
    IF truthy(prop(testCase, "executions")) THEN testCase.executions.v ELSE <<>>

\* the case once its own in/out and its executions were processed
processedCase(testCase, own, execs) ==
    IF own.error.t = "throw"
    THEN [threw |-> TRUE, error |-> own.error, testCase |-> testCase]
    ELSE IF \E i \in 1..Len(execs) : execs[i].error.t = "throw"
    THEN [threw |-> TRUE,
          error |-> firstThrow([i \in 1..Len(execs) |-> execs[i].error]),
          testCase |-> testCase]
    ELSE [threw |-> FALSE, error |-> Undef,
          testCase |-> IF truthy(prop(testCase, "executions"))
                       THEN setProp(own.object, "executions",
                                    Arr([i \in 1..Len(execs) |-> execs[i].object]))
                       ELSE own.object]

\* the case with its mock functions, references processed in the order in,
\* out, then each execution's in and out
caseWithMocks(testCase, mockFunctions) ==
    processedCase(testCase,
                  processInOut(testCase, mockFunctions),
                  [i \in 1..Len(executionsOf(testCase)) |->
                      processInOut(executionsOf(testCase)[i], mockFunctions)])

\* testCase.resolvedMocks and testCase.mockFunctions are set before any
\* reference is processed
caseWithResolved(testCase, resolved) ==
    caseWithMocks(setProp(setProp(testCase, "resolvedMocks", resolved),
                          "mockFunctions", createMockFunctions(resolved)),
                  createMockFunctions(resolved))

\* the body of the loop over the cases of a suite: the case after it, or the
\* error it threw
injectCase(cfg, suite, testCase) ==
    caseWithResolved(testCase,
                     resolveMocks(prop(testCase, "mocks"), prop(suite, "mocks"),
                                  prop(cfg, "mocks")))

\* module[name]: the export, or undefined
exportOf(module, name) ==
    IF name \in module THEN [t |-> "fn", export |-> name] ELSE Undef

DefaultExport == Str(<<"d", "e", "f", "a", "u", "l", "t">>)

ExportNotFound == [t |-> "throw", kind |-> "export_not_found", mock |-> <<>>]

\* the index of the first case whose processing threw, 0 when none did
firstFailed(results) ==
    IF \A j \in 1..Len(results) : ~results[j].threw THEN 0
    ELSE CHOOSE j \in 1..Len(results) :
            results[j].threw /\ \A k \in 1..(j - 1) : ~results[k].threw

\* the suite after its cases were processed: the export is looked up only
\* then; fn is module[suite.exportName] when the suite names an export
suiteWithExport(suite, functionUnderTest, exported, fn, cases) ==
    IF prop(suite, "mode") = Str(<<"c", "l", "a", "s", "s">>)
    THEN IF ~truthy(exported)
         THEN [threw |-> TRUE, error |-> ExportNotFound, atCase |-> 0,
               suite |-> suite, functionUnderTest |-> functionUnderTest]
         ELSE [threw |-> FALSE, error |-> Undef, atCase |-> 0,
               suite |-> setProp([suite EXCEPT !.cases = cases],
                                 "ClassUnderTest", exported),
               functionUnderTest |-> functionUnderTest]
    ELSE IF truthy(prop(suite, "exportName")) /\ ~truthy(fn)
    THEN [threw |-> TRUE, error |-> ExportNotFound, atCase |-> 0,
          suite |-> suite, functionUnderTest |-> fn]
    ELSE [threw |-> FALSE, error |-> Undef, atCase |-> 0,
          suite |-> [suite EXCEPT !.cases =
                       [j \in 1..Len(cases) |->
                           setProp(cases[j], "functionUnderTest", fn)]],
          functionUnderTest |-> fn]

\* the suite once the loop over its cases ended or threw
suiteWithCases(module, suite, functionUnderTest, results, failed) ==
    IF failed # 0
    THEN [threw |-> TRUE, error |-> results[failed].error, atCase |-> failed,
          suite |-> suite, functionUnderTest |-> functionUnderTest]
    ELSE suiteWithExport(suite, functionUnderTest,
                         exportOf(module, orElse(prop(suite, "exportName"), DefaultExport)),
                         IF truthy(prop(suite, "exportName"))
                         THEN exportOf(module, suite.exportName)
                         ELSE functionUnderTest,
                         [j \in 1..Len(results) |-> results[j].testCase])

injectedCases(cfg, suite) ==
    [j \in 1..Len(suite.cases) |-> injectCase(cfg, suite, suite.cases[j])]

\* the body of the loop over the suites: the suite after it, the function
\* under test carried to the next suite, or the error thrown and the case
\* the loop was at
injectSuite(module, cfg, functionUnderTest, suite) ==
    suiteWithCases(module, suite, functionUnderTest, injectedCases(cfg, suite),
                   firstFailed(injectedCases(cfg, suite)))

\* the loop over the suites from suite i on; nextSuite continues it after
\* the body ran for suite i with result r
RECURSIVE injectSuites(_, _, _, _, _)
RECURSIVE nextSuite(_, _, _, _, _)
nextSuite(module, cfg, i, done, r) ==
    IF r.threw
    THEN [threw |-> TRUE, error |-> r.error, atSuite |-> i, atCase |-> r.atCase,
          config |-> Null]
    ELSE injectSuites(module, cfg, r.functionUnderTest, i + 1, Append(done, r.suite))

injectSuites(module, cfg, functionUnderTest, i, done) ==
    IF i > Len(cfg.suites)
    THEN [threw |-> FALSE, error |-> Undef, atSuite |-> 0, atCase |-> 0,
          config |-> [cfg EXCEPT !.suites = done]]
    ELSE nextSuite(module, cfg, i, done,
                   injectSuite(module, cfg, functionUnderTest, cfg.suites[i]))

\* structuredClone copies the config; the first function under test is
\* module[testConfig.exportName || "default"]
injectFunctions(module, originalTestConfig) ==
    injectSuites(module, originalTestConfig,
                 exportOf(module, orElse(prop(originalTestConfig, "exportName"),
                                         DefaultExport)),
                 1, <<>>)

----------------------------------------------------------------------------
(* The documents of a stream, and one run of normalization and injection   *)

ModulePath == Str(<<"m">>)
GroupName == Str(<<"g">>)
ClassMode == Str(<<"c", "l", "a", "s", "s">>)

\* a mock name of each level, and a reference to it
GlobalMock == <<"x">>
SuiteMock == <<"y">>
CaseMock == <<"z">>
MockRef(name) == Str(MockPrefix \o name)

\* a mock definition: its declared calls
MockDef(v) == [calls |-> <<[in |-> Arr(<<v>>), throws |-> FALSE]>>]

HeaderDocs ==
    {[file |-> ModulePath, group |-> GroupName],
     [file |-> ModulePath, group |-> GroupName,
      mocks |-> Obj(GlobalMock :> MockDef(V1))]}

SuiteDocs ==
    {[suite |-> Str(<<"a">>)],
     [suite |-> Str(<<"b">>), mocks |-> Obj(SuiteMock :> MockDef(V2))],
     [suite |-> Str(<<"k">>), mode |-> ClassMode]}

CaseDocs ==
    {[case |-> Str(<<"p">>), in |-> Arr(<<V1>>), out |-> V2],
     [case |-> Str(<<"q">>), in |-> Arr(<<MockRef(GlobalMock)>>)],
     [case |-> Str(<<"r">>), in |-> Arr(<<V1, MockRef(SuiteMock)>>)],
     [case |-> Str(<<"s">>), in |-> Arr(<<MockRef(CaseMock)>>),
      mocks |-> Obj(CaseMock :> MockDef(L1))],
     [case |-> Str(<<"e">>),
      executions |-> Arr(<<[method |-> Str(<<"r">>),
                            in |-> Arr(<<MockRef(GlobalMock)>>)]>>)]}

\* a document with none of the keys file, suite, case
OtherDocs == {[note |-> Str(<<"n">>)]}

DocSet == HeaderDocs \cup SuiteDocs \cup CaseDocs \cup OtherDocs

\* further documents, read in shorter streams: a header with another path,
\* the name alias and a suite-name filter; suites with constructorArgs, one
\* of a mode that is not "class"; a case document with the fields of both
\* shapes; a document whose case key is the empty string; a null document
MaxWideDocs == 3

WideHeaderDocs ==
    {[file |-> Str(<<"n">>), name |-> Str(<<"h">>),
      suites |-> Arr(<<Str(<<"a">>)>>)]}

WideSuiteDocs ==
    {[suite |-> Str(<<"f">>), mode |-> Str(<<"f", "n">>),
      constructorArgs |-> Arr(<<V1>>)],
     [suite |-> Str(<<"c">>), mode |-> ClassMode,
      constructorArgs |-> Arr(<<V2>>)]}

WideCaseDocs ==
    {[case |-> Str(<<"b">>), in |-> Arr(<<V2>>), out |-> V1,
      throws |-> Str(<<"E">>),
      executions |-> Arr(<<[method |-> Str(<<"r">>), in |-> Arr(<<V1>>)]>>)],
     [case |-> Str(<<"i">>),
      in |-> Arr(<<MockRef(<<"c", "o", "n", "s", "t", "r", "u", "c", "t", "o", "r">>)>>)]}

FalsyKeyDocs == {[case |-> Str(<<>>), in |-> Arr(<<V1>>)]}

WideDocSet ==
    DocSet \cup WideHeaderDocs \cup WideSuiteDocs \cup WideCaseDocs
        \cup FalsyKeyDocs \cup {Null}

\* the modules under test: every suite's export, or only the export a
Modules ==
    {{Str(<<"a">>), Str(<<"b">>), Str(<<"k">>)}, {Str(<<"a">>)}}

InitNorm ==
    /\ pipeline \in {"file", "text"}
    /\ \/ \E n \in 0..MaxDocs : stream \in [1..n -> DocSet]
       \/ \E n \in 0..MaxWideDocs : stream \in [1..n -> WideDocSet]
    /\ pos = 1
    /\ config = initialConfig(pipeline)
    /\ currentSuite = Null
    /\ normPc = "reading"
    /\ injected = Null
    /\ injectError = Null
    /\ ran = <<>>
    /\ unitCalls = {}

\* one iteration of for (const doc of docs)
Iterate ==
    LET st == loopBody(pipeline,
                       [config |-> config, currentSuite |-> currentSuite,
                        threw |-> FALSE],
                       stream[pos])
    IN /\ config' = st.config
       /\ currentSuite' = st.currentSuite
       /\ pos' = pos + 1
       /\ normPc' = IF st.threw THEN "threw" ELSE "reading"
       /\ UNCHANGED <<pipeline, stream, injected, injectError, ran, unitCalls>>
       /\ normOnly

\* the loop is at a document
atDocument == normPc = "reading" /\ pos <= Len(stream)

\* if (doc.file)
ReadHeaderDocument ==
    /\ atDocument
    /\ branch(stream[pos], currentSuite) = "header"
    /\ Iterate

\* else if (doc.suite)
ReadSuiteDocument ==
    /\ atDocument
    /\ branch(stream[pos], currentSuite) = "suite"
    /\ Iterate

\* else if (doc.case && currentSuite)
ReadCaseDocument ==
    /\ atDocument
    /\ branch(stream[pos], currentSuite) = "case"
    /\ Iterate

\* the document is null: reading doc.file throws, the loop ends
ReadNullDocument ==
    /\ atDocument
    /\ branch(stream[pos], currentSuite) = "type_error"
    /\ Iterate

\* no branch is taken: the document changes nothing
IgnoreDocument ==
    /\ atDocument
    /\ branch(stream[pos], currentSuite) = "none"
    /\ Iterate

\* after the loop: the open suite is flushed and the config returned
EndOfStream ==
    /\ normPc = "reading"
    /\ pos > Len(stream)
    /\ config' = endOfStream(config, currentSuite)
    /\ normPc' = "normalized"
    /\ UNCHANGED <<pipeline, stream, pos, currentSuite, injected, injectError,
                   ran, unitCalls>>
    /\ normOnly

\* setupTestSuiteFromYaml joins the directory with testConfig.file and
\* imports it: without a header document there is no module to import
ImportFails ==
    /\ normPc = "normalized"
    /\ pipeline = "file"
    /\ ~truthy(config.file)
    /\ normPc' = "import_failed"
    /\ UNCHANGED <<pipeline, stream, pos, config, currentSuite, injected,
                   injectError, ran, unitCalls>>
    /\ normOnly

\* what injectFunctions returns or throws
injectResult(r) ==
    /\ normPc' = IF r.threw THEN "inject_failed" ELSE "injected"
    /\ injected' = r.config
    /\ injectError' = IF r.threw
                      THEN [kind |-> r.error.kind, mock |-> r.error.mock,
                            atSuite |-> r.atSuite, atCase |-> r.atCase]
                      ELSE Null

\* injectFunctions(module, testConfig)
InjectFunctions ==
    /\ normPc = "normalized"
    /\ pipeline = "file" => truthy(config.file)
    /\ \E module \in Modules : injectResult(injectFunctions(module, config))
    /\ UNCHANGED <<pipeline, stream, pos, config, currentSuite, ran, unitCalls>>
    /\ normOnly

\* the tests setupTestSuite registers, <<suite, case>> in the order of
\* registration, which is the order they run in; the normalizers copy no
\* skip key into the config, so the early return is never taken
RECURSIVE setupTestSuite(_, _)
setupTestSuite(suites, k) ==
    IF k > Len(suites) THEN <<>>
    ELSE [j \in 1..Len(suites[k].cases) |-> <<k, j>>]
            \o setupTestSuite(suites, k + 1)

\* the argument list the callback of a function test passes to the
\* function under test: none when there is no function
setupFunctionTests(testCase) ==
    IF ~truthy(prop(testCase, "functionUnderTest")) THEN {}
    ELSE {orElse(prop(testCase, "in"), Arr(<<>>))}

\* the argument lists the callback of a class test passes to the
\* constructor and, for each execution it comes to, to the method
setupClassTests(suite, testCase) ==
    IF ~truthy(prop(suite, "ClassUnderTest")) THEN {}
    ELSE {suite.constructorArgs}
         \cup {orElse(prop(executionsOf(testCase)[i], "in"), Arr(<<>>)) :
                 i \in 1..Len(executionsOf(testCase))}

\* the callback of the next registered test runs
RunTest ==
    /\ normPc = "injected"
    /\ Len(ran) < Len(setupTestSuite(injected.suites, 1))
    /\ LET next == setupTestSuite(injected.suites, 1)[Len(ran) + 1]
           suite == injected.suites[next[1]]
       IN /\ ran' = Append(ran, next)
          /\ unitCalls' = unitCalls \cup
                IF prop(suite, "mode") = ClassMode
                THEN setupClassTests(suite, suite.cases[next[2]])
                ELSE setupFunctionTests(suite.cases[next[2]])
    /\ UNCHANGED <<pipeline, stream, pos, config, currentSuite, normPc,
                   injected, injectError>>
    /\ normOnly

NextNorm ==
    \/ RunTest
    \/ ReadHeaderDocument
    \/ ReadSuiteDocument
    \/ ReadCaseDocument
    \/ ReadNullDocument
    \/ IgnoreDocument
    \/ EndOfStream
    \/ ImportFails
    \/ InjectFunctions

InitNormOnly == InitNorm /\ CaseIdle /\ LoadIdle /\ OthersIdle

SpecNorm == InitNormOnly /\ [][NextNorm]_vars

----------------------------------------------------------------------------
(* Header, suite and case documents of a stream, as the specification      *)
(* classifies them                                                         *)

isHeaderDoc(d) == truthy(prop(d, "file"))
isSuiteDoc(d) == ~isHeaderDoc(d) /\ truthy(prop(d, "suite"))
isCaseDoc(d) == ~isHeaderDoc(d) /\ ~isSuiteDoc(d) /\ truthy(prop(d, "case"))

indices(ds) == [i \in 1..Len(ds) |-> i]

\* the positions of the suite documents, in document order
suiteDocIndices(ds) == SelectSeq(indices(ds), LAMBDA i : isSuiteDoc(ds[i]))

\* the position of the first suite document, Len + 1 when there is none
firstSuiteIndex(ds) ==
    IF suiteDocIndices(ds) = <<>> THEN Len(ds) + 1 ELSE suiteDocIndices(ds)[1]

\* the positions of the case documents after the k-th suite document and
\* before the next one, in document order
caseDocIndices(ds, k) ==
    LET sd == suiteDocIndices(ds)
        hi == IF k < Len(sd) THEN sd[k + 1] ELSE Len(ds) + 1
    IN SelectSeq(indices(ds), LAMBDA i : sd[k] < i /\ i < hi /\ isCaseDoc(ds[i]))

\* the loop and the flush after it are over
normalizationEnded ==
    normPc \in {"normalized", "import_failed", "injected", "inject_failed"}

\* the mock names a document defines
mockNames(d) == IF truthy(prop(d, "mocks")) THEN DOMAIN d.mocks.v ELSE {}

\* the mock names of the header document (the last one read)
headerMockNames(ds) ==
    LET hs == SelectSeq(indices(ds), LAMBDA i : isHeaderDoc(ds[i]))
    IN IF hs = <<>> THEN {} ELSE mockNames(ds[hs[Len(hs)]])

\* the mock names defined for the j-th case of the k-th suite at any of
\* the three levels
definedFor(ds, k, j) ==
    headerMockNames(ds) \cup mockNames(ds[suiteDocIndices(ds)[k]])
        \cup mockNames(ds[caseDocIndices(ds, k)[j]])

\* C1: in the file pipeline (processDocuments, then injectFunctions) every
\* mock defined in the header, the suite or the case document is in the
\* case's resolved mock map, and a reference to such a mock does not fail
\* as undefined.
C1_FilePipelineResolvesEveryLevel ==
    pipeline = "file" =>
      /\ normPc = "injected" =>
           \A k \in 1..Len(injected.suites) :
             \A j \in 1..Len(injected.suites[k].cases) :
               definedFor(stream, k, j)
                  \subseteq DOMAIN injected.suites[k].cases[j].resolvedMocks.v
      /\ (normPc = "inject_failed" /\ injectError.kind = "undefined_mock") =>
           injectError.mock
              \notin definedFor(stream, injectError.atSuite, injectError.atCase)

\* C9: normalization yields one suite per suite document, in document
\* order, the last one and the empty ones included, and the cases of each
\* suite are the case documents between its suite document and the next,
\* in document order.
C9_OneSuitePerSuiteDocument ==
    normalizationEnded =>
      /\ Len(config.suites) = Len(suiteDocIndices(stream))
      /\ \A k \in 1..Len(config.suites) :
           /\ config.suites[k].name = stream[suiteDocIndices(stream)[k]].suite
           /\ Len(config.suites[k].cases) = Len(caseDocIndices(stream, k))
           /\ \A j \in 1..Len(config.suites[k].cases) :
                config.suites[k].cases[j].name
                   = stream[caseDocIndices(stream, k)[j]].case

\* a stream whose first suite has two different cases and whose last
\* document opens a suite that stays empty
C9_Witness ==
    /\ normalizationEnded
    /\ Len(config.suites) >= 2
    /\ Len(stream) >= 1
    /\ isSuiteDoc(stream[Len(stream)])
    /\ Len(config.suites[1].cases) = 2
    /\ config.suites[1].cases[1].name # config.suites[1].cases[2].name
    /\ config.suites[Len(config.suites)].cases = <<>>

\* the stream without the case documents that precede every suite document
withoutLeadingCases(ds) ==
    LET keep == SelectSeq(indices(ds),
                          LAMBDA i : ~(i < firstSuiteIndex(ds) /\ isCaseDoc(ds[i])))
    IN [j \in 1..Len(keep) |-> ds[keep[j]]]

\* the names of all cases of a list of suites, in order
RECURSIVE caseNames(_)
caseNames(suites) ==
    IF suites = <<>> THEN <<>>
    ELSE [j \in 1..Len(suites[1].cases) |-> suites[1].cases[j].name]
            \o caseNames(Tail(suites))

\* the names of the case documents that follow the first suite document
lateCaseNames(ds) ==
    LET late == SelectSeq(indices(ds),
                          LAMBDA i : i > firstSuiteIndex(ds) /\ isCaseDoc(ds[i]))
    IN [j \in 1..Len(late) |-> ds[late[j]].case]

\* C10: a case document read before any suite document is dropped: the
\* loop does not fail on it (it fails on a null document only), it is in no
\* suite, and the config is the one the stream without it normalizes to.
C10_LeadingCaseDropped ==
    /\ normPc = "threw" => stream[pos - 1] = Null
    /\ normalizationEnded =>
         /\ caseNames(config.suites) = lateCaseNames(stream)
         /\ config = normalize(pipeline, withoutLeadingCases(stream)).config

\* a case document before the first suite document, and a case after it
C10_Witness ==
    /\ normalizationEnded
    /\ \E i \in 1..Len(stream) : i < firstSuiteIndex(stream) /\ isCaseDoc(stream[i])
    /\ \E i \in 1..Len(stream) : i > firstSuiteIndex(stream) /\ isCaseDoc(stream[i])
    /\ caseNames(config.suites) # <<>>

----------------------------------------------------------------------------
(* Header fields, unmatched documents, case shapes, idempotence            *)

headerDocIndices(ds) == SelectSeq(indices(ds), LAMBDA i : isHeaderDoc(ds[i]))

\* the last header document of a stream that has one
lastHeaderDoc(ds) == ds[headerDocIndices(ds)[Len(headerDocIndices(ds))]]

\* file path, group name and global mocks are those of the last header
lastHeaderGivesPathGroupMocks ==
    /\ config.file = lastHeaderDoc(stream).file
    /\ config.group = orElse(prop(lastHeaderDoc(stream), "group"),
                             prop(lastHeaderDoc(stream), "name"))
    /\ pipeline = "text" =>
         config.mocks = orElse(prop(lastHeaderDoc(stream), "mocks"), Obj(<<>>))

\* the suite-name filter is the one of the last header, absent when that
\* header has none
lastHeaderGivesSuiteNames ==
    prop(config, "suiteNames")
       = IF truthy(prop(lastHeaderDoc(stream), "suites"))
         THEN lastHeaderDoc(stream).suites
         ELSE Undef

\* the global mocks injectFunctions works from are those of the last header
lastHeaderGivesGlobalMocks ==
    defaultEmpty(prop(config, "mocks"))
       = orElse(prop(lastHeaderDoc(stream), "mocks"), Obj(<<>>))

\* C11: with more than one header document every header field of the
\* config (file path, group name, suite-name filter, global mocks) is the
\* one of the last header document; a field the last header omits does not
\* keep an earlier header's value.
C11_LastHeaderWins ==
    (normalizationEnded /\ Len(headerDocIndices(stream)) >= 2) =>
      /\ lastHeaderGivesPathGroupMocks
      /\ lastHeaderGivesSuiteNames
      /\ lastHeaderGivesGlobalMocks

\* what of C11 the code does: path, group and (in parseYamlDocuments) the
\* mocks are overwritten by every header; the suite-name filter is only
\* overwritten by a header that has one
C11_PathAndGroupFollowLastHeader ==
    (normalizationEnded /\ headerDocIndices(stream) # <<>>) =>
      /\ lastHeaderGivesPathGroupMocks
      /\ "suiteNames" \in DOMAIN config =>
           \E i \in 1..Len(stream) :
              /\ isHeaderDoc(stream[i])
              /\ truthy(prop(stream[i], "suites"))
              /\ config.suiteNames = stream[i].suites
              /\ \A j \in (i + 1)..Len(stream) :
                    isHeaderDoc(stream[j]) => ~truthy(prop(stream[j], "suites"))

\* a document that matches none of the three shapes
isUnmatchedDoc(d) ==
    d = Null \/ (~isHeaderDoc(d) /\ ~isSuiteDoc(d) /\ ~truthy(prop(d, "case")))

withoutUnmatched(ds) ==
    LET keep == SelectSeq(indices(ds), LAMBDA i : ~isUnmatchedDoc(ds[i]))
    IN [j \in 1..Len(keep) |-> ds[keep[j]]]

\* C12: a document with no truthy file, suite or case key, a null document
\* included, is ignored: normalization does not fail, and the config is
\* the one of the stream without that document.
C12_UnmatchedDocumentIgnored ==
    /\ normPc # "threw"
    /\ normalizationEnded =>
         config = normalize(pipeline, withoutUnmatched(stream)).config

\* what of C12 the code does: a document that is an object is ignored, a
\* null document ends the loop with a TypeError
C12_UnmatchedObjectIgnored ==
    /\ normPc = "threw" => stream[pos - 1] = Null
    /\ (normalizationEnded /\ \A i \in 1..Len(stream) : stream[i] # Null) =>
         config = normalize(pipeline, withoutUnmatched(stream)).config

\* the case fields of function shape
FunctionFields == {"in", "out", "throws"}

\* C13: the shape of a normalized case follows the mode of the suite open
\* when it was read: under mode "class", executions (default empty list)
\* and no in/out/throws; under any other suite, in (default empty list),
\* out, optional throws and no executions; only a suite of mode "class"
\* carries mode and constructorArgs (default empty list).
C13_ShapeFollowsSuiteMode ==
    normalizationEnded =>
      \A k \in 1..Len(config.suites) :
        LET suite == config.suites[k]
            suiteDoc == stream[suiteDocIndices(stream)[k]]
        IN /\ IF prop(suiteDoc, "mode") = ClassMode
              THEN /\ prop(suite, "mode") = ClassMode
                   /\ prop(suite, "constructorArgs")
                         = orElse(prop(suiteDoc, "constructorArgs"), Arr(<<>>))
              ELSE {"mode", "constructorArgs"} \cap DOMAIN suite = {}
           /\ \A j \in 1..Len(suite.cases) :
                LET doc == stream[caseDocIndices(stream, k)[j]] IN
                IF prop(suiteDoc, "mode") = ClassMode
                THEN /\ FunctionFields \cap DOMAIN suite.cases[j] = {}
                     /\ prop(suite.cases[j], "executions")
                           = orElse(prop(doc, "executions"), Arr(<<>>))
                ELSE /\ "executions" \notin DOMAIN suite.cases[j]
                     /\ prop(suite.cases[j], "in") = orElse(prop(doc, "in"), Arr(<<>>))
                     /\ "out" \in DOMAIN suite.cases[j]
                     /\ suite.cases[j].out = prop(doc, "out")
                     /\ IF truthy(prop(doc, "throws"))
                        THEN prop(suite.cases[j], "throws") = doc.throws
                        ELSE "throws" \notin DOMAIN suite.cases[j]

\* a class suite holding a case whose document has an input list, and a
\* suite of another mode holding a case whose document has executions
C13_Witness ==
    /\ normalizationEnded
    /\ \E k \in 1..Len(config.suites) :
         /\ prop(config.suites[k], "mode") = ClassMode
         /\ \E j \in 1..Len(config.suites[k].cases) :
               truthy(prop(stream[caseDocIndices(stream, k)[j]], "in"))
    /\ \E k \in 1..Len(config.suites) :
         /\ "mode" \notin DOMAIN config.suites[k]
         /\ \E j \in 1..Len(config.suites[k].cases) :
               truthy(prop(stream[caseDocIndices(stream, k)[j]], "executions"))

\* an object with one key renamed and some keys left out
renamed(o, from, to, dropped) ==
    [k \in ((DOMAIN o \ dropped) \ {from}) \cup {to} |->
        IF k = to THEN o[from] ELSE o[k]]

\* the document-equivalent form of a config: one header document, then
\* each suite document followed by its case documents
headerDocumentOf(cfg) ==
    IF "suiteNames" \in DOMAIN cfg
    THEN renamed(cfg, "suiteNames", "suites", {"suites"})
    ELSE [k \in DOMAIN cfg \ {"suites"} |-> cfg[k]]

suiteDocumentsOf(suite) ==
    <<renamed(suite, "name", "suite", {"cases"})>>
       \o [j \in 1..Len(suite.cases) |-> renamed(suite.cases[j], "name", "case", {})]

RECURSIVE suitesDocumentsOf(_)
suitesDocumentsOf(suites) ==
    IF suites = <<>> THEN <<>>
    ELSE suiteDocumentsOf(suites[1]) \o suitesDocumentsOf(Tail(suites))

documentsOfConfig(cfg) == <<headerDocumentOf(cfg)>> \o suitesDocumentsOf(cfg.suites)

\* C14: normalization is idempotent: the document-equivalent form of a
\* normalized config normalizes, without failing, to that same config.
C14_NormalizationIdempotent ==
    normalizationEnded =>
      normalize(pipeline, documentsOfConfig(config))
         = [threw |-> FALSE, config |-> config]

\* a config with a header and two different suites, one with cases
C14_Witness ==
    /\ normalizationEnded
    /\ truthy(config.file)
    /\ Len(config.suites) >= 2
    /\ config.suites[1] # config.suites[2]
    /\ \E k \in 1..Len(config.suites) : config.suites[k].cases # <<>>

----------------------------------------------------------------------------
(* One call of resolveMocks and createMockFunctions, then one call of      *)
(* processMockReferences, on inputs of every kind                          *)

\* definitions of one call and of two calls
OneCall == [calls |-> <<[in |-> Arr(<<V1>>), throws |-> FALSE]>>]
TwoCalls == [calls |-> <<[in |-> Arr(<<V2>>), throws |-> FALSE],
                         [in |-> Arr(<<L1>>), throws |-> FALSE]>>]

\* the mocks a level may hold: none (the key is absent), an empty map, or
\* definitions for the names x and y
LevelMocks ==
    {Undef, Obj(<<>>),
     Obj(GlobalMock :> OneCall), Obj(GlobalMock :> TwoCalls),
     Obj(SuiteMock :> OneCall),
     Obj((GlobalMock :> OneCall) @@ (SuiteMock :> TwoCalls))}

\* strings that are references, and strings that only resemble one
SentinelLike ==
    {MockRef(GlobalMock), MockRef(SuiteMock), MockRef(CaseMock),
     MockRef(<<"c", "o", "n", "s", "t", "r", "u", "c", "t", "o", "r">>),
     Str(<<"a">> \o MockPrefix \o GlobalMock),
     Str(<<"$", "m", "o", "c", "k">>)}

Leaves == SentinelLike \cup {V1, Null, Str(<<"a">>)}

\* lists and objects of leaves, and lists and objects within a list
Trees ==
    Leaves
    \cup {Arr(<<>>), Obj(<<>>)}
    \cup {Arr(<<a, b>>) : a, b \in Leaves}
    \cup {Obj(("k" :> a) @@ ("m" :> b)) : a, b \in Leaves}
    \cup {Arr(<<V1, Arr(<<a, V2>>), Obj("k" :> Arr(<<a>>))>>) : a \in Leaves}

InitMock ==
    /\ mockLevels \in [{"case", "suite", "global"} -> LevelMocks]
    /\ tree \in Trees
    /\ resolvedMap = Null
    /\ wrappers = <<>>
    /\ treeResult = Null
    /\ mockPc = "start"

\* resolveMocks(testCase.mocks, suite.mocks, testConfig.mocks), then
\* createMockFunctions(testCase.resolvedMocks)
ResolveMocks ==
    /\ mockPc = "start"
    /\ resolvedMap' = resolveMocks(mockLevels["case"], mockLevels["suite"],
                                   mockLevels["global"])
    /\ wrappers' = createMockFunctions(resolvedMap')
    /\ mockPc' = "resolved"
    /\ UNCHANGED <<mockLevels, tree, treeResult>>
    /\ mockOnly

\* processMockReferences(value, mockFunctions): it builds its result from
\* new lists and objects and assigns nothing in value
ProcessMockReferences ==
    /\ mockPc = "resolved"
    /\ treeResult' = processMockReferences(tree, wrappers)
    /\ mockPc' = IF treeResult'.t = "throw" THEN "threw" ELSE "processed"
    /\ UNCHANGED <<mockLevels, tree, resolvedMap, wrappers>>
    /\ mockOnly

NextMock == ResolveMocks \/ ProcessMockReferences

InitMockOnly == InitMock /\ CaseIdle /\ LoadIdle /\ NormIdle /\ PathIdle /\ RestIdle

SpecMock == InitMockOnly /\ [][NextMock]_vars

\* the names a level defines, and the level of highest precedence that
\* defines a name
namesOf(level) == IF level.t = "obj" THEN DOMAIN level.v ELSE {}

winningLevel(levels, n) ==
    IF n \in namesOf(levels["case"]) THEN levels["case"]
    ELSE IF n \in namesOf(levels["suite"]) THEN levels["suite"]
    ELSE levels["global"]

\* C15: resolveMocks returns a map whose key set is the union of the key
\* sets of the three levels and whose value for a name is the whole
\* definition of the highest level defining it (case, then suite, then
\* global), never a merge; the mock function made from it expects exactly
\* the calls of that definition.
C15_WholeDefinitionOfHighestLevel ==
    mockPc \in {"resolved", "processed", "threw"} =>
      /\ DOMAIN resolvedMap.v
            = namesOf(mockLevels["case"]) \cup namesOf(mockLevels["suite"])
                 \cup namesOf(mockLevels["global"])
      /\ DOMAIN wrappers = DOMAIN resolvedMap.v
      /\ \A n \in DOMAIN resolvedMap.v :
           /\ resolvedMap.v[n] = winningLevel(mockLevels, n).v[n]
           /\ wrappers[n].calls = winningLevel(mockLevels, n).v[n].calls
           /\ wrappers[n].callIndex = 0
           /\ \A count \in 0..(2 * MaxCalls) :
                validate(wrappers[n].calls, count)
                   <=> count = Len(winningLevel(mockLevels, n).v[n].calls)

\* a mock defined globally with one call and again at case level with two
C15_Witness ==
    /\ mockPc = "resolved"
    /\ mockLevels["global"] = Obj(GlobalMock :> OneCall)
    /\ mockLevels["case"] = Obj(GlobalMock :> TwoCalls)
    /\ Len(wrappers[GlobalMock].calls) = 2

\* a string is a reference when it begins with the six characters $mock:
isSentinel(v) ==
    /\ v.t = "str"
    /\ Len(v.v) >= 6
    /\ \A i \in 1..6 : v.v[i] = MockPrefix[i]

\* the name a reference names: what follows the six characters
sentinelName(v) == [i \in 1..(Len(v.v) - 6) |-> v.v[i + 6]]

\* the names referenced anywhere in a value
RECURSIVE referencedNames(_)
referencedNames(v) ==
    IF isSentinel(v) THEN {sentinelName(v)}
    ELSE IF v.t = "arr" THEN UNION {referencedNames(v.v[i]) : i \in 1..Len(v.v)}
    ELSE IF v.t = "obj" THEN UNION {referencedNames(v.v[k]) : k \in DOMAIN v.v}
    ELSE {}

\* out is value with every reference replaced by its mock function and
\* nothing else changed
RECURSIVE replacedIn(_, _, _)
replacedIn(value, out, mockFunctions) ==
    IF isSentinel(value)
    THEN out = mockFunctions[sentinelName(value)].mockFunction
    ELSE IF value.t = "arr"
    THEN /\ out.t = "arr"
         /\ Len(out.v) = Len(value.v)
         /\ \A i \in 1..Len(value.v) : replacedIn(value.v[i], out.v[i], mockFunctions)
    ELSE IF value.t = "obj"
    THEN /\ out.t = "obj"
         /\ DOMAIN out.v = DOMAIN value.v
         /\ \A k \in DOMAIN value.v : replacedIn(value.v[k], out.v[k], mockFunctions)
    ELSE out = value

----------------------------------------------------------------------------
(* References to mocks that a case does not define                         *)

\* the names referenced in the in and out of a case and of its executions
caseReferences(testCase) ==
    LET own == {prop(testCase, "in"), prop(testCase, "out")}
        execs == UNION {{prop(executionsOf(testCase)[i], "in"),
                         prop(executionsOf(testCase)[i], "out")} :
                           i \in 1..Len(executionsOf(testCase))}
    IN UNION {referencedNames(v) : v \in own \cup execs}

\* the names a case references that its resolved mock map does not hold
undefinedReferences(cfg, suite, testCase) ==
    caseReferences(testCase)
       \ DOMAIN resolveMocks(prop(testCase, "mocks"), prop(suite, "mocks"),
                             prop(cfg, "mocks")).v

\* the undefined references of all the cases of a config
allUndefinedReferences(cfg) ==
    UNION {UNION {undefinedReferences(cfg, cfg.suites[k], cfg.suites[k].cases[j]) :
                    j \in 1..Len(cfg.suites[k].cases)} :
             k \in 1..Len(cfg.suites)}

\* a value holds a reference string somewhere
holdsSentinel(v) == referencedNames(v) # {}

injectionEnded == normPc \in {"injected", "inject_failed"}

\* C17: when a case input, case output, execution input or execution
\* output references a name absent from the case's resolved mock map,
\* injection fails (with the undefined-mock error, or with the export
\* error of an earlier suite), no test is registered and no unit under
\* test is called.
C17_UndefinedReferenceFailsBeforeUnit ==
    (injectionEnded /\ allUndefinedReferences(config) # {}) =>
       /\ normPc = "inject_failed"
       /\ injectError.kind \in {"undefined_mock", "export_not_found"}
       /\ ran = <<>>
       /\ unitCalls = {}

\* the same for names that Object.prototype does not define, and no unit
\* is ever passed a reference string taken from a case or an execution
C17_UndefinedOwnNameFails ==
    /\ (injectionEnded /\ allUndefinedReferences(config) \ ObjectPrototypeNames # {}) =>
          /\ normPc = "inject_failed"
          /\ injectError.kind \in {"undefined_mock", "export_not_found"}
          /\ ran = <<>>
          /\ unitCalls = {}
    /\ \A args \in unitCalls : ~holdsSentinel(args)

\* a function under test was called with undefined in place of a
\* reference to a mock the case does not define
C17_UnitCalledWithUndefined ==
    /\ normPc = "injected"
    /\ allUndefinedReferences(config) # {}
    /\ Arr(<<Undef>>) \in unitCalls

----------------------------------------------------------------------------
(* getNestedProperty and callNestedMethod: a dot-path walked over an       *)
(* object graph. A path is its sequence of characters, a member name is    *)
(* the sequence of characters of a segment                                 *)

\* a function: its own members (length, name) and what a call of it does
Fn(body) ==
    [t |-> "fn", body |-> body,
     v |-> (<<"l", "e", "n", "g", "t", "h">> :> Num(0))
              @@ (<<"n", "a", "m", "e">> :> Str(<<>>))]

Bool(b) == [t |-> "bool", v |-> b]

\* path.split('.'): the pieces between the dots; one piece, possibly empty,
\* when there is no dot
RECURSIVE split(_)
split(chars) ==
    IF \A i \in 1..Len(chars) : chars[i] # "."
    THEN <<chars>>
    ELSE LET dot == CHOOSE i \in 1..Len(chars) :
                       chars[i] = "." /\ \A j \in 1..(i - 1) : chars[j] # "."
         IN <<SubSeq(chars, 1, dot - 1)>>
               \o split(SubSeq(chars, dot + 1, Len(chars)))

\* a string, number or boolean: the operator in throws a TypeError on it
isPrimitive(current) == current.t \in {"str", "num", "bool"}

\* the index a member name denotes in a list, -1 when it denotes none
indexOf(part) ==
    IF part = <<"0">> THEN 0 ELSE IF part = <<"1">> THEN 1
    ELSE IF part = <<"2">> THEN 2 ELSE -1

\* part in current, for an object, a list or a function; of the members these
\* inherit from their prototypes the paths walked here name none
hasMember(current, part) ==
    IF current.t = "arr"
    THEN \/ part = <<"l", "e", "n", "g", "t", "h">>
         \/ indexOf(part) \in 0..(Len(current.v) - 1)
    ELSE part \in DOMAIN current.v

\* current[part], for a member current has
member(current, part) ==
    IF current.t = "arr"
    THEN IF part = <<"l", "e", "n", "g", "t", "h">>
         THEN Num(Len(current.v))
         ELSE current.v[indexOf(part) + 1]
    ELSE current.v[part]

\* what a call of the resolver ends with: the value returned, or the error
\* thrown with the segment and the path its message names; invoked holds
\* the argument lists the terminal member was called with
Returned(value) ==
    [kind |-> "value", what |-> "", segment |-> <<>>, path |-> <<>>,
     value |-> value, invoked |-> <<>>]

Failed(kind, what, segment, path) ==
    [kind |-> kind, what |-> what, segment |-> segment, path |-> path,
     value |-> Undef, invoked |-> <<>>]

\* the loop over parts[i..last]: the checks of one iteration, then the next
RECURSIVE walk(_, _, _, _, _)
walk(current, parts, i, last, path) ==
    IF i > last THEN Returned(current)
    ELSE IF isNullish(current)
    THEN Failed("cannot_access", "property", parts[i], path)
    ELSE IF isPrimitive(current)
    THEN Failed("type_error", "in", <<>>, <<>>)
    ELSE IF ~hasMember(current, parts[i])
    THEN Failed("not_found", "property", parts[i], path)
    ELSE walk(member(current, parts[i]), parts, i + 1, last, path)

getNestedProperty(obj, path) ==
    walk(obj, split(path), 1, Len(split(path)), path)

\* current[methodName](...args)
invoke(fn, args) ==
    [(CASE fn.body = "throws" -> Failed("method_threw", "", <<>>, <<>>)
        [] fn.body = "first_argument" ->
              Returned(IF Len(args) > 0 THEN args[1] ELSE Undef)
        [] OTHER -> Returned(V1))
     EXCEPT !.invoked = <<args>>]

\* the checks on the parent the loop ended at, then the call
callMethod(current, methodName, args, path) ==
    IF isNullish(current)
    THEN Failed("cannot_access", "method", methodName, path)
    ELSE IF isPrimitive(current)
    THEN Failed("type_error", "in", <<>>, <<>>)
    ELSE IF ~hasMember(current, methodName)
    THEN Failed("not_found", "method", methodName, path)
    ELSE IF member(current, methodName).t # "fn"
    THEN Failed("not_a_function", "method", methodName, path)
    ELSE invoke(member(current, methodName), args)

\* the result of the navigation to the parent, then of the call on it
callOnParent(parent, methodName, args, path) ==
    IF parent.kind # "value" THEN parent
    ELSE callMethod(parent.value, methodName, args, path)

\* parts.pop() takes the last piece as the method name
callNestedMethod(obj, path, args) ==
    callOnParent(walk(obj, split(path), 1, Len(split(path)) - 1, path),
                 split(path)[Len(split(path))], args, path)

\* member names, and the object graphs walked: user.profile.name whole,
\* without profile, with profile null or undefined, with strings, numbers
\* and booleans on the way, with lists and with functions
SegUser == <<"u">>
SegProfile == <<"p">>
SegName == <<"n">>
SegGet == <<"g">>
SegZero == <<"0">>
SegLength == <<"l", "e", "n", "g", "t", "h">>

Segments == {SegUser, SegProfile, SegName, SegGet, SegZero, SegLength}

Jane == Str(<<"J">>)

Graphs ==
    {Obj(SegUser :> Obj(SegProfile :> Obj((SegName :> Jane)
                                           @@ (SegGet :> Fn("constant"))))),
     Obj(SegUser :> Obj(<<>>)),
     Obj(SegUser :> Obj(SegProfile :> Null)),
     Obj(SegUser :> Obj(SegProfile :> Undef)),
     Obj(SegUser :> Obj((SegName :> Jane) @@ (SegProfile :> Num(0))
                         @@ (SegGet :> Bool(FALSE)))),
     Obj(SegUser :> Arr(<<Obj((SegName :> Jane)
                              @@ (SegGet :> Fn("first_argument")))>>)),
     Obj((SegGet :> Fn("throws")) @@ (SegUser :> Fn("first_argument"))
          @@ (SegName :> Null)),
     Arr(<<Fn("constant")>>),
     Null, Undef, Jane}

\* one to three segments joined by dots, and paths with an empty piece
joined(a, b) == a \o <<".">> \o b

Paths ==
    Segments
    \cup {joined(a, b) : a, b \in Segments}
    \cup {joined(a, joined(b, c)) : a, b, c \in Segments}
    \cup {<<>>, <<".">>, joined(SegUser, <<>>), joined(<<>>, SegUser),
          joined(SegUser, joined(<<>>, SegName))}

ArgLists == {<<>>, <<V2>>, <<V2, V1>>, <<V1, V2>>}

InitPath ==
    /\ graph \in Graphs
    /\ dotPath \in Paths
    /\ callArgs \in ArgLists
    /\ resolverResult = Null
    /\ resolverPc = "ready"

GetNestedProperty ==
    /\ resolverPc = "ready"
    /\ resolverResult' = getNestedProperty(graph, dotPath)
    /\ resolverPc' = "getNestedProperty"
    /\ UNCHANGED <<graph, dotPath, callArgs>>
    /\ pathOnly

CallNestedMethod ==
    /\ resolverPc = "ready"
    /\ resolverResult' = callNestedMethod(graph, dotPath, callArgs)
    /\ resolverPc' = "callNestedMethod"
    /\ UNCHANGED <<graph, dotPath, callArgs>>
    /\ pathOnly

NextPath == GetNestedProperty \/ CallNestedMethod

InitPathOnly == InitPath /\ CaseIdle /\ LoadIdle /\ NormIdle /\ MockIdle /\ RestIdle

SpecPath == InitPathOnly /\ [][NextPath]_vars

----------------------------------------------------------------------------
(* What a path reaches in a graph, segment by segment                      *)

\* an object, a list or a function: a value that has members
isComposite(v) == v.t \in {"obj", "arr", "fn"}

\* the value the first i segments reach, undefined when a segment on the
\* way is absent from its parent
RECURSIVE valueAt(_, _, _)
valueAt(obj, parts, i) ==
    IF i = 0 THEN obj
    ELSE IF /\ isComposite(valueAt(obj, parts, i - 1))
            /\ hasMember(valueAt(obj, parts, i - 1), parts[i])
    THEN member(valueAt(obj, parts, i - 1), parts[i])
    ELSE Undef

\* segment i is a member of the value the segments before it reach
segmentPresent(obj, parts, i) ==
    /\ isComposite(valueAt(obj, parts, i - 1))
    /\ hasMember(valueAt(obj, parts, i - 1), parts[i])

\* segment i is absent from its parent or has a null or undefined value
missingOrNull(obj, parts, i) ==
    ~segmentPresent(obj, parts, i) \/ isNullish(valueAt(obj, parts, i))

\* the first segment that is missing or null, 0 when there is none
firstMissingOrNull(obj, parts) ==
    IF \A i \in 1..Len(parts) : ~missingOrNull(obj, parts, i) THEN 0
    ELSE CHOOSE i \in 1..Len(parts) :
            /\ missingOrNull(obj, parts, i)
            /\ \A j \in 1..(i - 1) : ~missingOrNull(obj, parts, j)

resolverEnded == resolverPc \in {"getNestedProperty", "callNestedMethod"}

\* the walk stops at an intermediate segment of an object, list or function
stopsAtIntermediate(obj, parts) ==
    /\ firstMissingOrNull(obj, parts) \in 1..(Len(parts) - 1)
    /\ isComposite(valueAt(obj, parts, firstMissingOrNull(obj, parts) - 1))

\* C18: when an intermediate segment is absent from its parent or has a
\* null or undefined value, getNestedProperty and callNestedMethod fail
\* with an error that names the first such segment and the full path.
C18_ErrorNamesFirstMissingOrNullSegment ==
    (resolverEnded /\ stopsAtIntermediate(graph, split(dotPath))) =>
       /\ resolverResult.kind \in {"cannot_access", "not_found"}
       /\ resolverResult.segment
             = split(dotPath)[firstMissingOrNull(graph, split(dotPath))]
       /\ resolverResult.path = dotPath

\* what the code does there: an absent segment is named; for a segment
\* with a null or undefined value the error names the segment after it
C18_AbsentSegmentNamedNullNamesNext ==
    (resolverEnded /\ stopsAtIntermediate(graph, split(dotPath))) =>
       LET parts == split(dotPath)
           i == firstMissingOrNull(graph, parts)
       IN /\ resolverResult.path = dotPath
          /\ IF segmentPresent(graph, parts, i)
             THEN /\ resolverResult.kind = "cannot_access"
                  /\ resolverResult.segment = parts[i + 1]
             ELSE /\ resolverResult.kind = "not_found"
                  /\ resolverResult.segment = parts[i]

\* user.profile.name walked on {user: {profile: null}}: the error names
\* name, the segment after the null one
C18_NullProfileNamesName ==
    /\ resolverEnded
    /\ graph = Obj(SegUser :> Obj(SegProfile :> Null))
    /\ dotPath = joined(SegUser, joined(SegProfile, SegName))
    /\ resolverResult.kind = "cannot_access"
    /\ resolverResult.segment = SegName

\* C19: getNestedProperty and callNestedMethod return a value, or fail
\* with a missing-segment error or (callNestedMethod, terminal member not
\* a function) a not-callable error; the only other failure is the one the
\* invoked method itself throws.
C19_OnlyDesignedErrors ==
    resolverEnded =>
       \/ resolverResult.kind \in {"value", "cannot_access", "not_found",
                                   "method_threw"}
       \/ /\ resolverPc = "callNestedMethod"
          /\ resolverResult.kind = "not_a_function"

\* what the code does: the TypeError of the operator in escapes exactly
\* when the walk comes to a string, number or boolean with a segment left
C19_TypeErrorOnlyAtPrimitive ==
    resolverEnded =>
       (resolverResult.kind = "type_error"
          <=> \E i \in 1..Len(split(dotPath)) :
                 /\ isPrimitive(valueAt(graph, split(dotPath), i - 1))
                 /\ \A j \in 1..(i - 1) : ~missingOrNull(graph, split(dotPath), j))

\* user.name.g walked on {user: {name: "J", ...}}: a TypeError
C19_TypeErrorEscapes ==
    /\ resolverEnded
    /\ dotPath = joined(SegUser, joined(SegName, SegGet))
    /\ valueAt(graph, split(dotPath), 2) = Jane
    /\ resolverResult.kind = "type_error"

\* every segment before the last is present with an object, list or
\* function as its value, and so is the root
parentResolves(obj, parts) ==
    \A i \in 0..(Len(parts) - 1) :
       /\ i > 0 => segmentPresent(obj, parts, i)
       /\ isComposite(valueAt(obj, parts, i))

\* C20: when every segment before the last resolves to a non-null
\* object, getNestedProperty returns the value of the last segment on that
\* object, undefined when the object has no such member.
C20_TerminalIsPlainRead ==
    (resolverPc = "getNestedProperty" /\ parentResolves(graph, split(dotPath))) =>
       /\ resolverResult.kind = "value"
       /\ resolverResult.value
             = valueAt(graph, split(dotPath), Len(split(dotPath)))

\* what the code does: a member the parent has is read, a member it lacks
\* is a property-not-found error naming the last segment
C20_AbsentTerminalNotFound ==
    (resolverPc = "getNestedProperty" /\ parentResolves(graph, split(dotPath))) =>
       LET parts == split(dotPath)
       IN IF segmentPresent(graph, parts, Len(parts))
          THEN /\ resolverResult.kind = "value"
               /\ resolverResult.value = valueAt(graph, parts, Len(parts))
          ELSE /\ resolverResult.kind = "not_found"
               /\ resolverResult.segment = parts[Len(parts)]
               /\ resolverResult.path = dotPath

\* user.profile read on {user: {}}: an error, not undefined
C20_AbsentTerminalThrows ==
    /\ resolverPc = "getNestedProperty"
    /\ graph = Obj(SegUser :> Obj(<<>>))
    /\ dotPath = joined(SegUser, SegProfile)
    /\ resolverResult.kind = "not_found"

----------------------------------------------------------------------------
(* The terminal member of callNestedMethod                                 *)

\* every segment before the last is a member of what the segments before it
\* reach
parentReached(obj, parts) ==
    \A i \in 1..(Len(parts) - 1) : segmentPresent(obj, parts, i)

\* what a call of the terminal member with these arguments gives
outcomeOf(fn, args) ==
    CASE fn.body = "throws" -> "method_threw"
      [] OTHER -> "value"

\* the verdict on the terminal member of parts on the value parent
terminalVerdict(parent, name, result, args) ==
    IF ~(isComposite(parent) /\ hasMember(parent, name))
    THEN /\ result.kind \in {"not_found", "cannot_access"}
         /\ result.segment = name
         /\ result.invoked = <<>>
    ELSE IF member(parent, name).t # "fn"
    THEN /\ result.kind = "not_a_function"
         /\ result.segment = name
         /\ result.invoked = <<>>
    ELSE /\ result.invoked = <<args>>
         /\ result.kind = outcomeOf(member(parent, name), args)
         /\ member(parent, name).body = "first_argument" =>
               result.value = (IF Len(args) > 0 THEN args[1] ELSE Undef)

\* C21: when every segment before the last resolves, callNestedMethod
\* fails with a missing-segment error if the terminal member is absent,
\* with a not-callable error if it is present and not a function, and
\* otherwise invokes it exactly once with exactly the given argument list
\* and returns its result or propagates its failure.
C21_TerminalMemberInvokedOnce ==
    (resolverPc = "callNestedMethod" /\ parentReached(graph, split(dotPath))) =>
       terminalVerdict(valueAt(graph, split(dotPath), Len(split(dotPath)) - 1),
                       split(dotPath)[Len(split(dotPath))],
                       resolverResult, callArgs)

\* the same when the value the parent segments reach is not a string,
\* number or boolean
C21_TerminalMemberOfNonPrimitive ==
    (/\ resolverPc = "callNestedMethod"
     /\ parentReached(graph, split(dotPath))
     /\ ~isPrimitive(valueAt(graph, split(dotPath), Len(split(dotPath)) - 1))) =>
       terminalVerdict(valueAt(graph, split(dotPath), Len(split(dotPath)) - 1),
                       split(dotPath)[Len(split(dotPath))],
                       resolverResult, callArgs)

\* user.name.g called on {user: {name: "J", ...}}: the parent segments
\* resolve, to a string, and the call ends with a TypeError
C21_PrimitiveParentTypeError ==
    /\ resolverPc = "callNestedMethod"
    /\ dotPath = joined(SegUser, joined(SegName, SegGet))
    /\ valueAt(graph, split(dotPath), 2) = Jane
    /\ resolverResult.kind = "type_error"

----------------------------------------------------------------------------
(* One call of deepEqual on two values: what a mock was declared to        *)
(* receive and what it was invoked with                                    *)

\* null-like values, scalars, lists, objects, and an object whose keys are
\* the indices of a list
EqualValues ==
    {Null, Undef, V1, V2, Num(0), Str(<<>>), Str(<<"a">>),
     Arr(<<>>), Obj(<<>>), L1, O1,
     Arr(<<V1, V2>>), Obj(("0" :> V1) @@ ("1" :> V2)),
     Obj(("0" :> V2) @@ ("1" :> V1)),
     Arr(<<Null>>), Arr(<<Undef>>), Obj("k" :> Null), Obj("k" :> Undef),
     Arr(<<L1>>), Arr(<<O1>>), Obj("k" :> V1), Obj("m" :> V1)}

InitEq ==
    /\ eqLeft \in EqualValues
    /\ eqRight \in EqualValues
    /\ eqResult = FALSE
    /\ eqPc = "ready"

DeepEqual ==
    /\ eqPc = "ready"
    /\ eqResult' = deepEqual(eqLeft, eqRight)
    /\ eqPc' = "done"
    /\ UNCHANGED <<eqLeft, eqRight>>
    /\ eqOnly

NextEq == DeepEqual

InitEqOnly ==
    /\ InitEq /\ CaseIdle /\ LoadIdle /\ NormIdle /\ MockIdle /\ PathIdle
    /\ SetupIdle /\ RunIdle

SpecEq == InitEqOnly /\ [][NextEq]_vars

\* C27: deepEqual(x, y) is true whenever x and y are both null or
\* undefined, and false whenever exactly one of them is.
C27_NullLikeEqualOnlyToEachOther ==
    eqPc = "done" =>
       /\ (isNullish(eqLeft) /\ isNullish(eqRight)) => eqResult
       /\ (isNullish(eqLeft) # isNullish(eqRight)) => ~eqResult

\* what the code does: a null-like value equals only itself, so null and
\* undefined are unequal to each other too
C27_NullLikeEqualOnlyToItself ==
    (eqPc = "done" /\ (isNullish(eqLeft) \/ isNullish(eqRight))) =>
       (eqResult <=> eqLeft = eqRight)

\* deepEqual(null, undefined) returned false
C27_NullUnequalToUndefined ==
    /\ eqPc = "done"
    /\ eqLeft = Null
    /\ eqRight = Undef
    /\ ~eqResult

\* C28: deepEqual never reports a list equal to an object that is not a
\* list, in either order of the arguments.
C28_ListNeverEqualsObject ==
    (eqPc = "done" /\ {eqLeft.t, eqRight.t} = {"arr", "obj"}) => ~eqResult

\* what the code does: a list and an object are reported equal exactly
\* when the keys of the object are the indices of the list and the values
\* under them are deep-equal
C28_ListEqualsIndexKeyedObject ==
    (eqPc = "done" /\ {eqLeft.t, eqRight.t} = {"arr", "obj"}) =>
       (eqResult <=>
          /\ keysOf(eqLeft) = keysOf(eqRight)
          /\ \A k \in keysOf(eqLeft) :
                deepEqual(getKey(eqLeft, k), getKey(eqRight, k)))

\* deepEqual([1], {"0": 1}) returned true
C28_ListEqualToIndexKeyedObject ==
    /\ eqPc = "done"
    /\ eqLeft = L1
    /\ eqRight = O1
    /\ eqResult

----------------------------------------------------------------------------
(* injectFunctions called with a config its caller built, as the tests of  *)
(* injectFunctions do: suites with and without exportName, in any order    *)

FunctionCase == [name |-> Str(<<"p">>), in |-> Arr(<<V1>>)]

\* a case of a class suite, with the mock its suite's constructorArgs name
ClassCase ==
    [name |-> Str(<<"e">>),
     executions |-> Arr(<<[method |-> Str(<<"r">>), in |-> Arr(<<V2>>)]>>),
     mocks |-> Obj(GlobalMock :> MockDef(V1))]

DirectSuites ==
    {[name |-> Str(<<"s">>), cases |-> <<FunctionCase>>],
     [name |-> Str(<<"a">>), exportName |-> Str(<<"a">>), cases |-> <<FunctionCase>>],
     [name |-> Str(<<"b">>), exportName |-> Str(<<"b">>), cases |-> <<FunctionCase>>],
     [name |-> Str(<<"k">>), exportName |-> Str(<<"k">>), mode |-> ClassMode,
      constructorArgs |-> Arr(<<MockRef(GlobalMock)>>),
      cases |-> <<ClassCase>>]}

MaxSuites == 3

DirectConfigs ==
    UNION {{[suites |-> ss], [suites |-> ss, exportName |-> Str(<<"a">>)]} :
             ss \in UNION {[1..n -> DirectSuites] : n \in 0..MaxSuites}}

\* modules with and without a default export
DirectModules ==
    {{DefaultExport, Str(<<"a">>), Str(<<"b">>), Str(<<"k">>)},
     {Str(<<"a">>), Str(<<"b">>), Str(<<"k">>)},
     {DefaultExport, Str(<<"a">>)}}

InitInject ==
    /\ pipeline = "direct"
    /\ stream = <<>>
    /\ pos = 1
    /\ config \in DirectConfigs
    /\ currentSuite = Null
    /\ normPc = "normalized"
    /\ injected = Null
    /\ injectError = Null
    /\ ran = <<>>
    /\ unitCalls = {}

\* injectFunctions(module, testConfig) on such a config
InjectFunctionsDirect ==
    /\ normPc = "normalized"
    /\ pipeline = "direct"
    /\ \E module \in DirectModules : injectResult(injectFunctions(module, config))
    /\ UNCHANGED <<pipeline, stream, pos, config, currentSuite, ran, unitCalls>>
    /\ normOnly

NextInject == InjectFunctionsDirect \/ RunTest

InitInjectOnly == InitInject /\ CaseIdle /\ LoadIdle /\ OthersIdle

SpecInject == InitInjectOnly /\ [][NextInject]_vars

\* the export a suite names, or the one the config names, or default
exportNameFor(cfg, suite) ==
    orElse(prop(suite, "exportName"), orElse(prop(cfg, "exportName"), DefaultExport))

isFunctionSuite(suite) == prop(suite, "mode") # ClassMode

\* C24: every case of a function-mode suite without exportName gets the
\* config-level export (module[config.exportName], or module.default), and
\* every case of a suite with an exportName gets that export, whatever
\* suites come before it.
C24_ExportFollowsOwnSuite ==
    normPc = "injected" =>
       \A k \in 1..Len(injected.suites) :
          isFunctionSuite(injected.suites[k]) =>
             \A j \in 1..Len(injected.suites[k].cases) :
                LET fn == prop(injected.suites[k].cases[j], "functionUnderTest")
                IN truthy(fn)
                      => fn.export = exportNameFor(injected, injected.suites[k])

\* the last function-mode suite at or before suite k that has an
\* exportName, 0 when there is none
lastNamed(cfg, k) ==
    LET named == {i \in 1..k : /\ isFunctionSuite(cfg.suites[i])
                               /\ truthy(prop(cfg.suites[i], "exportName"))}
    IN IF named = {} THEN 0 ELSE CHOOSE i \in named : \A h \in named : h <= i

\* what the code does: a suite without exportName gets the export of the
\* last function-mode suite before it that names one, and the config-level
\* export only when there is none
C24_ExportCarriedFromEarlierSuite ==
    normPc = "injected" =>
       \A k \in 1..Len(injected.suites) :
          isFunctionSuite(injected.suites[k]) =>
             \A j \in 1..Len(injected.suites[k].cases) :
                LET fn == prop(injected.suites[k].cases[j], "functionUnderTest")
                    from == lastNamed(injected, k)
                IN truthy(fn)
                      => fn.export
                            = IF from = 0
                              THEN orElse(prop(injected, "exportName"), DefaultExport)
                              ELSE injected.suites[from].exportName

\* the suites {exportName: a}, {no exportName}: the case of the second
\* suite got module.a, not module.default
C24_SecondSuiteGotFirstExport ==
    /\ normPc = "injected"
    /\ Len(injected.suites) = 2
    /\ ~truthy(prop(injected, "exportName"))
    /\ prop(injected.suites[1], "exportName") = Str(<<"a">>)
    /\ ~truthy(prop(injected.suites[2], "exportName"))
    /\ prop(injected.suites[2].cases[1], "functionUnderTest")
          = [t |-> "fn", export |-> Str(<<"a">>)]

\* the tests of class suites whose callback ran and constructed an instance
classTestsRun ==
    {i \in 1..Len(ran) :
        /\ prop(injected.suites[ran[i][1]], "mode") = ClassMode
        /\ truthy(prop(injected.suites[ran[i][1]], "ClassUnderTest"))}

\* C25: a `$mock:<name>` reference in a class suite's constructorArgs is
\* replaced by the running case's mock function of that name before the
\* instance is constructed: the constructor receives the mock function.
C25_ConstructorReceivesMock ==
    \A i \in classTestsRun :
       \E args \in unitCalls :
          replacedIn(config.suites[ran[i][1]].constructorArgs, args,
                     injected.suites[ran[i][1]].cases[ran[i][2]].mockFunctions)

\* what the code does: injectFunctions leaves constructorArgs as they
\* were written, and the constructor is called with them
C25_ConstructorArgsUnprocessed ==
    \A i \in classTestsRun :
       /\ injected.suites[ran[i][1]].constructorArgs
             = config.suites[ran[i][1]].constructorArgs
       /\ config.suites[ran[i][1]].constructorArgs \in unitCalls

\* a constructor was called with the string $mock:x although the case
\* defines the mock x
C25_ConstructorGotSentinel ==
    /\ classTestsRun # {}
    /\ Arr(<<MockRef(GlobalMock)>>) \in unitCalls
    /\ \A i \in classTestsRun :
          GlobalMock \in DOMAIN injected.suites[ran[i][1]].cases[ran[i][2]].mockFunctions

----------------------------------------------------------------------------
(* setupTestSuiteFromYaml: the loop over the test files found              *)

MaxSources == 3
MaxSuitesOfSource == 2

\* how the resolution of a file ends: parseWithIncludes throws (an include
\* error), the import of the module fails, injectFunctions throws (missing
\* export, undefined mock reference), or the config is returned
Resolutions ==
    {"ok", "include_error", "import_error", "export_not_found", "undefined_mock"}

Sources ==
    [resolution : Resolutions, suites : 1..MaxSuitesOfSource]

InitSetup ==
    /\ \E n \in 0..MaxSources : sources \in [1..n -> Sources]
    /\ sourceIdx = 1
    /\ attempted = {}
    /\ registered = {}
    /\ setupPc = "running"

\* setupTestSuite(testConfigWithInjectedFunctions): a describe per suite
suitesOf(i, source) == {<<i, k>> : k \in 1..source.suites}

\* one iteration of the loop, for a file that resolves
SetupSource ==
    /\ setupPc = "running"
    /\ sourceIdx <= Len(sources)
    /\ sources[sourceIdx].resolution = "ok"
    /\ attempted' = attempted \cup {sourceIdx}
    /\ registered' = registered \cup suitesOf(sourceIdx, sources[sourceIdx])
    /\ sourceIdx' = sourceIdx + 1
    /\ UNCHANGED <<sources, setupPc>>
    /\ setupOnly

\* one iteration for a file whose resolution throws: catch (error) { throw
\* error }, which ends the loop and rejects the promise
SourceFails ==
    /\ setupPc = "running"
    /\ sourceIdx <= Len(sources)
    /\ sources[sourceIdx].resolution # "ok"
    /\ attempted' = attempted \cup {sourceIdx}
    /\ setupPc' = "rejected"
    /\ UNCHANGED <<sources, sourceIdx, registered>>
    /\ setupOnly

\* the loop is over
SetupReturns ==
    /\ setupPc = "running"
    /\ sourceIdx > Len(sources)
    /\ setupPc' = "done"
    /\ UNCHANGED <<sources, sourceIdx, attempted, registered>>
    /\ setupOnly

NextSetup == SetupSource \/ SourceFails \/ SetupReturns

InitSetupOnly ==
    /\ InitSetup /\ CaseIdle /\ LoadIdle /\ NormIdle /\ MockIdle /\ PathIdle
    /\ EqIdle /\ RunIdle

SpecSetup == InitSetupOnly /\ [][NextSetup]_vars

setupEnded == setupPc \in {"done", "rejected"}

failingSources == {i \in 1..Len(sources) : sources[i].resolution # "ok"}

\* C29: when the call has ended, no suite of a file whose resolution
\* failed is registered, every suite of a file that resolved before a
\* failing one is registered, and so is every suite of a file that
\* resolves after a failing one.
C29_FailureConfinedToItsSource ==
    setupEnded =>
       /\ \A i \in failingSources : suitesOf(i, sources[i]) \cap registered = {}
       /\ \A i \in 1..Len(sources) :
             i \notin failingSources => suitesOf(i, sources[i]) \subseteq registered

\* what the code does: the first failing file ends the loop; the files
\* before it are registered, that file and every file after it are not,
\* and the files after it are not even resolved
C29_FirstFailureEndsSetup ==
    setupEnded =>
       LET first == IF failingSources = {} THEN Len(sources) + 1
                    ELSE CHOOSE i \in failingSources : \A j \in failingSources : i <= j
       IN /\ registered = UNION {suitesOf(i, sources[i]) : i \in 1..(first - 1)}
          /\ attempted = 1..(IF first > Len(sources) THEN Len(sources) ELSE first)
          /\ setupPc = "rejected" <=> failingSources # {}

\* a file that resolves was never resolved because the file before it
\* failed
C29_LaterSourceSkipped ==
    /\ setupPc = "rejected"
    /\ Len(sources) = 2
    /\ sources[1].resolution = "undefined_mock"
    /\ sources[2].resolution = "ok"
    /\ 2 \notin attempted
    /\ registered = {}

----------------------------------------------------------------------------
(* The test callbacks setupFunctionTests and setupClassTests register for  *)
(* one suite, run in the order of registration. An execution or a function *)
(* case is described by what it declares: throws, out, asserts             *)

MaxCasesOfSuite == 2

\* a class case: its executions, each with the assertions it lists
ClassCases ==
    {[executions |-> <<[throws |-> FALSE, out |-> FALSE, asserts |-> <<>>]>>],
     [executions |-> <<[throws |-> FALSE, out |-> TRUE,
                        asserts |-> <<"property", "method">>],
                       [throws |-> TRUE, out |-> FALSE,
                        asserts |-> <<"property">>]>>],
     [executions |-> <<[throws |-> TRUE, out |-> FALSE, asserts |-> <<>>],
                       [throws |-> FALSE, out |-> FALSE,
                        asserts |-> <<"method">>]>>]}

\* a function case: whether it declares throws, whether it declares out
FunctionCases ==
    {[throws |-> FALSE, out |-> FALSE], [throws |-> FALSE, out |-> TRUE],
     [throws |-> TRUE, out |-> FALSE]}

\* sharedArg: constructorArgs holds an object, which the class keeps and
\* its methods write to
RunSuites ==
    UNION {[mode : {"class"}, sharedArg : BOOLEAN, cases : [1..n -> ClassCases]]
             \cup [mode : {"function"}, sharedArg : {FALSE},
                   cases : [1..n -> FunctionCases]] :
           n \in 1..MaxCasesOfSuite}

\* how a call of the unit under test ends: it returns undefined, the
\* declared out, or another value, or throws an error that matches the
\* declared throws or another one
Outcomes ==
    {"return_undefined", "return_expected", "return_other", "throw_match",
     "throw_other"}

threw(outcome) == outcome \in {"throw_match", "throw_other"}

\* the outcomes there are for a call, given whether an out is declared
possibleOutcomes(declaresOut) ==
    IF declaresOut THEN Outcomes ELSE Outcomes \ {"return_expected"}

\* setupFunctionTests: expect(() => fn(...)).toThrow(throws), or
\* expect(out).toEqual(expectedOut) with expectedOut undefined when the
\* case declares no out
functionAccepted(testCase, outcome) ==
    IF testCase.throws THEN outcome = "throw_match"
    ELSE IF testCase.out THEN outcome = "return_expected"
    ELSE outcome = "return_undefined"

\* setupClassTests: the same for throws; the return value is compared only
\* if (expectedOut !== undefined)
methodAccepted(execution, outcome) ==
    IF execution.throws THEN outcome = "throw_match"
    ELSE /\ ~threw(outcome)
         /\ execution.out => outcome = "return_expected"

\* where the loops over executions and asserts go after a step
firstPosition(testCase) ==
    IF Len(testCase.executions) > 0
    THEN [kind |-> "step", exec |-> 1, assert |-> 0]
    ELSE [kind |-> "finish", exec |-> 0, assert |-> 0]

nextPosition(testCase, e, a) ==
    IF a < Len(testCase.executions[e].asserts)
    THEN [kind |-> "step", exec |-> e, assert |-> a + 1]
    ELSE IF e < Len(testCase.executions)
    THEN [kind |-> "step", exec |-> e + 1, assert |-> 0]
    ELSE [kind |-> "finish", exec |-> 0, assert |-> 0]

\* a callback that goes on after a failed expectation
afterStepIgnoringFailure(ok, testCase, e, a) == nextPosition(testCase, e, a)

\* a failed expectation throws out of both loops
afterStep(ok, testCase, e, a) ==
    IF ok THEN nextPosition(testCase, e, a)
    ELSE [kind |-> "failed", exec |-> 0, assert |-> 0]

\* what the running callback reads that a case other than its own wrote:
\* in the fields of its instance and in the object of constructorArgs
foreignState ==
    ((IF instance = 0 THEN {} ELSE instances[instance])
        \cup (IF runSuite.sharedArg THEN argWriters ELSE {})) \ {testIdx}

Event(kind, e, a, outcome, ok) ==
    [kind |-> kind, test |-> testIdx, exec |-> e, assert |-> a,
     instance |-> instance, foreign |-> foreignState, outcome |-> outcome,
     ok |-> ok]

InitRun ==
    /\ runSuite \in RunSuites
    /\ testIdx = 1
    /\ execIdx = 0
    /\ assertIdx = 0
    /\ runPc = "between"
    /\ instance = 0
    /\ instances = <<>>
    /\ argWriters = {}
    /\ runLog = <<>>
    /\ verdicts = <<>>

\* the callback ends: the verdict, and the next test is the one to run
endTest(verdict) ==
    /\ verdicts' = Append(verdicts, verdict)
    /\ testIdx' = testIdx + 1
    /\ runPc' = "between"
    /\ instance' = 0
    /\ execIdx' = 0
    /\ assertIdx' = 0

\* the callback goes to the position p
moveTo(p) ==
    IF p.kind = "failed" THEN endTest("failed")
    ELSE /\ runPc' = p.kind
         /\ execIdx' = p.exec
         /\ assertIdx' = p.assert
         /\ UNCHANGED <<verdicts, testIdx, instance>>

\* the callback of a function case, whole: the call, the expectation,
\* validateMockCalls
RunFunctionTest ==
    /\ runPc = "between"
    /\ testIdx <= Len(runSuite.cases)
    /\ runSuite.mode = "function"
    /\ \E outcome \in possibleOutcomes(runSuite.cases[testIdx].out),
          mocksValidate \in BOOLEAN :
         /\ runLog' = Append(runLog,
                             Event("call", 0, 0, outcome,
                                   functionAccepted(runSuite.cases[testIdx], outcome)))
         /\ endTest(IF functionAccepted(runSuite.cases[testIdx], outcome)
                       /\ mocksValidate
                    THEN "passed" ELSE "failed")
    /\ UNCHANGED <<runSuite, instances, argWriters>>
    /\ runOnly

\* the callback of a class case starts: new ClassUnderTest(...constructorArgs),
\* which may throw
StartClassTest ==
    /\ runPc = "between"
    /\ testIdx <= Len(runSuite.cases)
    /\ runSuite.mode = "class"
    /\ \E constructed \in BOOLEAN :
         IF constructed
         THEN /\ instances' = Append(instances, {})
              /\ instance' = Len(instances) + 1
              /\ runLog' = Append(runLog,
                                  [Event("construct", 0, 0, "return_other", TRUE)
                                     EXCEPT !.instance = Len(instances) + 1,
                                            !.foreign = {}])
              /\ runPc' = firstPosition(runSuite.cases[testIdx]).kind
              /\ execIdx' = firstPosition(runSuite.cases[testIdx]).exec
              /\ assertIdx' = 0
              /\ UNCHANGED <<verdicts, testIdx>>
         ELSE /\ runLog' = Append(runLog,
                                  Event("construct", 0, 0, "throw_other", FALSE))
              /\ endTest("failed")
              /\ UNCHANGED instances
    /\ UNCHANGED <<runSuite, argWriters>>
    /\ runOnly

\* callNestedMethod(instance, method, inArg || []) and the check of what it
\* returned or threw; the method writes to the fields of the instance
RunExecution ==
    /\ runPc = "step"
    /\ assertIdx = 0
    /\ LET testCase == runSuite.cases[testIdx]
           execution == testCase.executions[execIdx]
       IN \E outcome \in possibleOutcomes(execution.out) :
            /\ runLog' = Append(runLog,
                                Event("call", execIdx, 0, outcome,
                                      methodAccepted(execution, outcome)))
            /\ moveTo(afterStep(methodAccepted(execution, outcome), testCase,
                                execIdx, 0))
    /\ instances' = [instances EXCEPT ![instance] = @ \cup {testIdx}]
    /\ argWriters' = IF runSuite.sharedArg THEN argWriters \cup {testIdx}
                     ELSE argWriters
    /\ UNCHANGED runSuite
    /\ runOnly

\* one assertion of the execution: getNestedProperty or callNestedMethod on
\* the instance, and the expectation on what it gave
RunAssertion ==
    /\ runPc = "step"
    /\ assertIdx > 0
    /\ LET testCase == runSuite.cases[testIdx]
       IN \E holds \in BOOLEAN :
            /\ runLog' = Append(runLog,
                                Event(testCase.executions[execIdx].asserts[assertIdx],
                                      execIdx, assertIdx, "return_other", holds))
            /\ moveTo(afterStep(holds, testCase, execIdx, assertIdx))
    /\ UNCHANGED <<runSuite, instances, argWriters>>
    /\ runOnly

\* the executions are over: validateMockCalls, then the finally block
FinishClassTest ==
    /\ runPc = "finish"
    /\ \E mocksValidate \in BOOLEAN :
         endTest(IF mocksValidate THEN "passed" ELSE "failed")
    /\ UNCHANGED <<runSuite, instances, argWriters, runLog>>
    /\ runOnly

NextRun ==
    \/ RunFunctionTest
    \/ StartClassTest
    \/ RunExecution
    \/ RunAssertion
    \/ FinishClassTest

InitRunOnly ==
    /\ InitRun /\ CaseIdle /\ LoadIdle /\ NormIdle /\ MockIdle /\ PathIdle
    /\ EqIdle /\ SetupIdle

SpecRun == InitRunOnly /\ [][NextRun]_vars

----------------------------------------------------------------------------
(* What the callbacks of a suite did                                       *)

\* the events of the callback of case t, in order
eventsOf(t) == SelectSeq(runLog, LAMBDA ev : ev.test = t)

\* the cases whose callback has started
startedTests == {runLog[i].test : i \in DOMAIN runLog}

\* the callback of case t constructed once, first of all it did, and
\* everything it did after used the instance it constructed
ownInstanceOnly(t) ==
    /\ eventsOf(t)[1].kind = "construct"
    /\ \A i \in 2..Len(eventsOf(t)) :
          /\ eventsOf(t)[i].kind # "construct"
          /\ eventsOf(t)[i].instance = eventsOf(t)[1].instance
          /\ eventsOf(t)[i].instance # 0

\* no instance is used by the callbacks of two cases
noInstanceInTwoCases ==
    \A i, j \in DOMAIN runLog :
       (runLog[i].instance # 0 /\ runLog[i].instance = runLog[j].instance)
          => runLog[i].test = runLog[j].test

\* C22: in class mode each case constructs one instance when its callback
\* starts, all its executions and assertions use that instance, no
\* instance is used by two cases, and no execution or assertion reads
\* state that the executions of another case wrote.
C22_FreshInstanceNoForeignState ==
    runSuite.mode = "class" =>
       /\ \A t \in startedTests : ownInstanceOnly(t)
       /\ noInstanceInTwoCases
       /\ \A i \in DOMAIN runLog : runLog[i].foreign = {}

\* what the code does: instances are fresh and their own fields are
\* written by one case only; state of another case is read only through
\* the object of constructorArgs, which all instances of the suite are
\* given
C22_FreshInstanceSharedArguments ==
    runSuite.mode = "class" =>
       /\ \A t \in startedTests : ownInstanceOnly(t)
       /\ noInstanceInTwoCases
       /\ \A n \in DOMAIN instances : Cardinality(instances[n]) <= 1
       /\ \A i \in DOMAIN runLog :
             runLog[i].foreign # {} => runSuite.sharedArg

\* an execution of the second case read what the first case wrote to the
\* object of constructorArgs
C22_SecondCaseReadFirstCaseState ==
    /\ runSuite.mode = "class"
    /\ \E i \in DOMAIN runLog :
          /\ runLog[i].test = 2
          /\ runLog[i].kind = "call"
          /\ runLog[i].instance = 2
          /\ runLog[i].foreign = {1}

\* the steps of a class case in document order: the construction, then for
\* each execution its method call followed by its assertions as listed
RECURSIVE stepsFrom(_, _)
stepsFrom(executions, e) ==
    IF e > Len(executions) THEN <<>>
    ELSE <<<<"call", e, 0>>>>
            \o [a \in 1..Len(executions[e].asserts) |->
                   <<executions[e].asserts[a], e, a>>]
            \o stepsFrom(executions, e + 1)

plannedSteps(testCase) == <<<<"construct", 0, 0>>>> \o stepsFrom(testCase.executions, 1)

\* the events of case t are the first steps of its plan, in order, and
\* only the last of them may have failed
runsInOrder(t) ==
    /\ Len(eventsOf(t)) <= Len(plannedSteps(runSuite.cases[t]))
    /\ \A i \in 1..Len(eventsOf(t)) :
          /\ <<eventsOf(t)[i].kind, eventsOf(t)[i].exec, eventsOf(t)[i].assert>>
                = plannedSteps(runSuite.cases[t])[i]
          /\ i < Len(eventsOf(t)) => eventsOf(t)[i].ok

\* C23: within a class case the executions run in document order, each
\* method call with its check before its assertions, these in their
\* listed order, all before the next execution; after the first failing
\* check nothing more of the case runs; a case that passed ran every step.
C23_StepsInDocumentOrder ==
    runSuite.mode = "class" =>
       /\ \A t \in startedTests : runsInOrder(t)
       /\ \A i \in 1..(Len(runLog) - 1) : runLog[i].test <= runLog[i + 1].test
       /\ \A t \in 1..Len(verdicts) :
             verdicts[t] = "passed" =>
                Len(eventsOf(t)) = Len(plannedSteps(runSuite.cases[t]))

\* C23 witness: a case of two executions ended at the failed second
\* assertion of its first execution, the second execution never ran
C23_Witness ==
    /\ runSuite.mode = "class"
    /\ Len(verdicts) >= 1
    /\ verdicts[1] = "failed"
    /\ Len(runSuite.cases[1].executions) = 2
    /\ Len(eventsOf(1)) = 4
    /\ eventsOf(1)[4].kind = "method"
    /\ ~eventsOf(1)[4].ok
    /\ eventsOf(1)[3].ok

\* what the call of event ev declares: the function case, or the execution
declaredBy(ev) ==
    IF runSuite.mode = "function" THEN runSuite.cases[ev.test]
    ELSE runSuite.cases[ev.test].executions[ev.exec]

\* C30: a call of the unit whose case or execution declares neither out
\* nor throws is accepted for every value it returns, in function mode as
\* in class mode.
C30_UndeclaredOutAcceptsAnyReturn ==
    \A i \in DOMAIN runLog :
       (/\ runLog[i].kind = "call"
        /\ ~declaredBy(runLog[i]).out
        /\ ~declaredBy(runLog[i]).throws
        /\ ~threw(runLog[i].outcome)) => runLog[i].ok

\* what the code does: in class mode every returned value is accepted, in
\* function mode only undefined
C30_FunctionModeRequiresUndefined ==
    \A i \in DOMAIN runLog :
       (/\ runLog[i].kind = "call"
        /\ ~declaredBy(runLog[i]).out
        /\ ~declaredBy(runLog[i]).throws
        /\ ~threw(runLog[i].outcome)) =>
          (runLog[i].ok <=> (runSuite.mode = "class"
                               \/ runLog[i].outcome = "return_undefined"))

\* a function case without out and throws failed because the function
\* returned a value
C30_FunctionCaseFailedOnReturnValue ==
    /\ runSuite.mode = "function"
    /\ Len(verdicts) >= 1
    /\ verdicts[1] = "failed"
    /\ ~runSuite.cases[1].out
    /\ ~runSuite.cases[1].throws
    /\ runLog[1].outcome = "return_other"

====
